---- MODULE Spec2Model ----
(***************************************************************************)
(* Credit scoring decision core of the LendingVerse platform               *)
(* (src/ai/credit-scoring): preprocessing of the three input records,      *)
(* feature combination, the model path and the heuristic path of           *)
(* CreditScoringSystem.score_borrower, and the risk table.                 *)
(*                                                                         *)
(* Numbers are exact rationals n/d; the rounding of binary floating point  *)
(* is not modelled.  A cell of a one-row DataFrame is one of               *)
(*   [k |-> "num", n, d]   a finite number n/d, d > 0, in lowest terms     *)
(*   [k |-> "inf", n]      +infinity (n = 1) or -infinity (n = -1)         *)
(*   [k |-> "nan"]         numpy NaN                                       *)
(*   [k |-> "none"]        Python None held in an object column            *)
(*   [k |-> "str", s]      a string                                        *)
(* A table is a function from column names to cells (one row).             *)
(***************************************************************************)
EXTENDS Integers, Sequences, FiniteSets, TLC

\* ------------------------------------------------------------------------
\* Numbers
\* ------------------------------------------------------------------------
Sign(n) == IF n > 0 THEN 1 ELSE IF n < 0 THEN -1 ELSE 0

Abs(n) == IF n < 0 THEN -n ELSE n

RECURSIVE GCD(_, _)
GCD(a, b) == IF b = 0 THEN a ELSE GCD(b, a % b)

\* The finite number n/d (d # 0), in lowest terms with a positive denominator.
Num(n, d) ==
    LET g == GCD(Abs(n), Abs(d))
    IN  [k |-> "num", n |-> (Sign(d) * n) \div g, d |-> Abs(d) \div g]

Int2Num(i) == Num(i, 1)

NaN == [k |-> "nan"]

Inf(s) == [k |-> "inf", n |-> s]

None == [k |-> "none"]

Str(s) == [k |-> "str", s |-> s]

IsNum(c) == c.k = "num"

IsFloat(c) == c.k \in {"num", "inf", "nan"}

\* pandas isna(): NaN and None are both null.
IsNull(c) == c.k \in {"nan", "none"}

\* Sign of a float cell that is not NaN.
FSign(c) == IF c.k = "inf" THEN c.n ELSE Sign(c.n)

\* IEEE-754 arithmetic on float cells (numpy never raises on these).
FAdd(a, b) ==
    IF a.k = "nan" \/ b.k = "nan" THEN NaN
    ELSE IF a.k = "inf" /\ b.k = "inf" THEN (IF a.n = b.n THEN a ELSE NaN)
    ELSE IF a.k = "inf" THEN a
    ELSE IF b.k = "inf" THEN b
    ELSE Num(a.n * b.d + b.n * a.d, a.d * b.d)

FNeg(a) ==
    IF a.k = "nan" THEN NaN
    ELSE IF a.k = "inf" THEN Inf(-a.n)
    ELSE Num(-a.n, a.d)

FSub(a, b) == FAdd(a, FNeg(b))

FMul(a, b) ==
    IF a.k = "nan" \/ b.k = "nan" THEN NaN
    ELSE IF a.k = "inf" \/ b.k = "inf"
         THEN (IF FSign(a) * FSign(b) = 0 THEN NaN ELSE Inf(FSign(a) * FSign(b)))
    ELSE Num(a.n * b.n, a.d * b.d)

FDiv(a, b) ==
    IF a.k = "nan" \/ b.k = "nan" THEN NaN
    ELSE IF a.k = "inf" THEN (IF b.k = "inf" THEN NaN
                              ELSE Inf(a.n * (IF FSign(b) < 0 THEN -1 ELSE 1)))
    ELSE IF b.k = "inf" THEN Int2Num(0)
    ELSE IF b.n = 0 THEN (IF a.n = 0 THEN NaN ELSE Inf(Sign(a.n)))
    ELSE Num(a.n * b.d, a.d * b.n)

\* a < b on float cells; every comparison with NaN is false.
FLt(a, b) ==
    IF a.k = "nan" \/ b.k = "nan" THEN FALSE
    ELSE IF a.k = "inf" THEN a.n = -1 /\ ~(b.k = "inf" /\ b.n = -1)
    ELSE IF b.k = "inf" THEN b.n = 1
    ELSE a.n * b.d < b.n * a.d

FGt(a, b) == FLt(b, a)

FGe(a, b) ==
    IF a.k = "nan" \/ b.k = "nan" THEN FALSE ELSE ~FLt(a, b)

\* Python's builtin max(a, b) / min(a, b): the first argument is kept unless
\* the second compares strictly greater / smaller.
PyMax(a, b) == IF FGt(b, a) THEN b ELSE a

PyMin(a, b) == IF FLt(b, a) THEN b ELSE a

\* ------------------------------------------------------------------------
\* One-row tables
\* ------------------------------------------------------------------------
EmptyTable == [c \in {} |-> NaN]

\* data[name] = cell
WithCol(t, name, cell) ==
    [c \in DOMAIN t \cup {name} |-> IF c = name THEN cell ELSE t[c]]

\* pandas Series arithmetic: an object column holding None falls back to the
\* masked operation, whose result is NaN wherever an operand is null.
SCell(c) == IF IsNull(c) THEN NaN ELSE c

SDiv(a, b) == FDiv(SCell(a), SCell(b))

SMul(a, b) == FMul(SCell(a), SCell(b))

SAdd(a, b) == FAdd(SCell(a), SCell(b))

SSub(a, b) == FSub(SCell(a), SCell(b))

\* np.minimum(a, b): the smaller one; NaN if either is NaN.
NpMinimum(a, b) ==
    IF a.k = "nan" \/ b.k = "nan" THEN NaN ELSE IF FLt(b, a) THEN b ELSE a

\* Mutant: infinite values are kept.
ReplaceInf_Keep(t) == t

\* df.replace([np.inf, -np.inf], np.nan)
ReplaceInf(t) == [c \in DOMAIN t |-> IF t[c].k = "inf" THEN NaN ELSE t[c]]

\* ------------------------------------------------------------------------
\* preprocessing.py
\* ------------------------------------------------------------------------
\* A derivation rule "if all of needs exist: X[name] = value", where the
\* value is computed from the columns a and b (or a and the number f):
\*   div        a / b                    pct        a / b * 100
\*   growth     (a - b) / b              sub        a - b
\*   scale      a * f                    capped     np.minimum(a / f, 1) * 100
\*   inv_age    a * (1 / (b + 1))        div_plus1  a / (b + 1)
Rule(name, kind, a, b) ==
    [name |-> name, needs |-> {a, b}, kind |-> kind, a |-> a, b |-> b]

RuleValue(t, r) ==
    CASE r.kind = "div" -> SDiv(t[r.a], t[r.b])
      [] r.kind = "pct" -> FMul(SDiv(t[r.a], t[r.b]), Int2Num(100))
      [] r.kind = "growth" -> SDiv(SSub(t[r.a], t[r.b]), t[r.b])
      [] r.kind = "sub" -> SSub(t[r.a], t[r.b])
      [] r.kind = "scale" -> SMul(t[r.a], r.f)
      [] r.kind = "capped" -> FMul(NpMinimum(SDiv(t[r.a], r.f), Int2Num(1)), Int2Num(100))
      [] r.kind = "inv_age" -> SMul(t[r.a], SDiv(Int2Num(1), SAdd(t[r.b], Int2Num(1))))
      [] r.kind = "div_plus1" -> SDiv(t[r.a], SAdd(t[r.b], Int2Num(1)))

\* The columns a rule computes with.
OperandCols(r) == IF "b" \in DOMAIN r THEN {r.a, r.b} ELSE {r.a}

\* The rule is applied and its arithmetic raises TypeError: an operand holds
\* a string.
RuleRaises(t, r) ==
    /\ r.needs \subseteq DOMAIN t
    /\ \E c \in OperandCols(r) : t[c].k = "str"

\* The table after rule r.
AfterRule(t, r) ==
    IF r.needs \subseteq DOMAIN t THEN WithCol(t, r.name, RuleValue(t, r)) ELSE t

\* The rules applied one after the other, each to the table built so far, up
\* to the first one that raises: the table holds what was assigned before.
RECURSIVE ApplyRules(_, _, _)
ApplyRules(t, rules, i) ==
    IF i > Len(rules) \/ RuleRaises(t, rules[i]) THEN t
    ELSE ApplyRules(AfterRule(t, rules[i]), rules, i + 1)

\* One of the rules raises when they are applied one after the other.
RECURSIVE RulesRaise(_, _, _)
RulesRaise(t, rules, i) ==
    IF i > Len(rules) THEN FALSE
    ELSE IF RuleRaises(t, rules[i]) THEN TRUE
    ELSE RulesRaise(AfterRule(t, rules[i]), rules, i + 1)

\* The ratios of calculate_financial_ratios, in code order.
FinancialRatioTable ==
    << Rule("current_ratio", "div", "current_assets", "current_liabilities"),
       Rule("cash_ratio", "div", "cash", "current_liabilities"),
       Rule("return_on_assets", "div", "net_income", "total_assets"),
       Rule("return_on_equity", "div", "net_income", "total_equity"),
       Rule("gross_margin", "div", "gross_profit", "revenue"),
       Rule("net_profit_margin", "div", "net_income", "revenue"),
       Rule("debt_to_assets", "div", "total_debt", "total_assets"),
       Rule("debt_to_equity", "div", "total_debt", "total_equity"),
       Rule("asset_turnover", "div", "revenue", "total_assets"),
       Rule("inventory_turnover", "div", "cost_of_goods_sold", "inventory") >>

\* calculate_financial_ratios: an exception leaves the try block, so the
\* table is returned as it is, without the replacement of infinities.
calculate_financial_ratios(financial_data) ==
    IF RulesRaise(financial_data, FinancialRatioTable, 1)
    THEN ApplyRules(financial_data, FinancialRatioTable, 1)
    ELSE ReplaceInf(ApplyRules(financial_data, FinancialRatioTable, 1))

\* str.lower() on the industry names the inputs use.
Lower(s) ==
    CASE s = "Retail" -> "retail"
      [] s = "HEALTHCARE" -> "healthcare"
      [] OTHER -> s

\* The industry_risk dictionary of encode_industry; 0 stands for "no entry".
IndustryRiskOf(s) ==
    CASE s = "technology" -> 3
      [] s = "healthcare" -> 2
      [] s = "finance" -> 4
      [] s = "retail" -> 5
      [] s = "manufacturing" -> 4
      [] s = "real_estate" -> 5
      [] s = "education" -> 2
      [] s = "energy" -> 4
      [] s = "transportation" -> 3
      [] s = "agriculture" -> 3
      [] s = "construction" -> 5
      [] s = "hospitality" -> 6
      [] s = "entertainment" -> 5
      [] OTHER -> 0

DefaultIndustryRisk == 4

\* encode_industry: the .str accessor raises AttributeError on a column that
\* holds no strings (a float or integer column); an object column of None
\* maps to NaN and is filled with the default risk.
encode_industry(data) ==
    IF "industry" \notin DOMAIN data THEN [raised |-> FALSE, data |-> data]
    ELSE LET c == data["industry"]
         IN  IF c.k \notin {"str", "none"} THEN [raised |-> TRUE, data |-> data]
             ELSE LET risk == IF c.k = "str" THEN IndustryRiskOf(Lower(c.s)) ELSE 0
                  IN  [raised |-> FALSE,
                       data |-> WithCol(data, "industry_risk",
                                   Int2Num(IF risk = 0 THEN DefaultIndustryRisk ELSE risk))]

\* pd.cut(company_age, bins=[0, 2, 5, 10, 20, inf]): the intervals are closed
\* on the right, (0,2], (2,5], (5,10], (10,20], (20,inf]; the result is the
\* index of the interval, 0 when the age falls in none (NaN in pandas).
AgeBin(age) ==
    IF ~IsFloat(age) \/ age.k = "nan" \/ ~FGt(age, Int2Num(0)) THEN 0
    ELSE IF ~FGt(age, Int2Num(2)) THEN 1
    ELSE IF ~FGt(age, Int2Num(5)) THEN 2
    ELSE IF ~FGt(age, Int2Num(10)) THEN 3
    ELSE IF ~FGt(age, Int2Num(20)) THEN 4
    ELSE 5

AgeBracketLabels == <<"startup", "early_stage", "established", "mature", "legacy">>

AgeRiskLabels == <<5, 4, 3, 2, 1>>

\* encode_company_age: astype(int) raises when the age falls in no interval.
encode_company_age(data, current_year) ==
    IF "founded_year" \notin DOMAIN data THEN [raised |-> FALSE, data |-> data]
    ELSE LET age == SSub(Int2Num(current_year), data["founded_year"])
             bin == AgeBin(age)
             d1 == WithCol(data, "company_age", age)
         IN  IF bin = 0 THEN [raised |-> TRUE, data |-> d1]
             ELSE [raised |-> FALSE,
                   data |-> WithCol(WithCol(d1, "age_bracket", Str(AgeBracketLabels[bin])),
                                    "age_risk", Int2Num(AgeRiskLabels[bin]))]

\* The business branch of preprocess_data.
PreprocessBusiness(business_data, current_year) ==
    LET r1 == encode_industry(business_data)
    IN  IF r1.raised THEN r1 ELSE encode_company_age(r1.data, current_year)

\* preprocess_data: data is the dictionary of the sources that were passed;
\* raised tells that an exception left the function.
preprocess_data(req, current_year) ==
    LET biz == IF "business" \in DOMAIN req
               THEN PreprocessBusiness(req["business"], current_year)
               ELSE [raised |-> FALSE, data |-> EmptyTable]
    IN  [raised |-> biz.raised,
         data |-> [s \in DOMAIN req |->
                     IF s = "financial" THEN calculate_financial_ratios(req[s])
                     ELSE IF s = "business" THEN biz.data
                     ELSE req[s]]]

\* ------------------------------------------------------------------------
\* feature_engineering.py
\* ------------------------------------------------------------------------
\* A rule whose second operand is the number f.
RuleF(name, kind, needs, a, f) ==
    [name |-> name, needs |-> needs, kind |-> kind, a |-> a, f |-> f]

\* The values of the rules whose columns exist, in rule order.
RECURSIVE FactorValues(_, _, _)
FactorValues(t, rules, i) ==
    IF i > Len(rules) THEN <<>>
    ELSE (IF rules[i].needs \subseteq DOMAIN t THEN <<RuleValue(t, rules[i])>> ELSE <<>>)
         \o FactorValues(t, rules, i + 1)

RECURSIVE SumCells(_)
SumCells(cells) ==
    IF cells = <<>> THEN Int2Num(0) ELSE FAdd(Head(cells), SumCells(Tail(cells)))

\* np.mean(list of one-row Series, axis=0)
MeanCells(cells) == FDiv(SumCells(cells), Int2Num(Len(cells)))

\* Building the factors, or their mean, raises: a factor column holds a
\* string.
FactorsRaise(t, rules) == \E i \in 1..Len(rules) : RuleRaises(t, rules[i])

\* if factors: X[name] = np.mean(factors, axis=0)
AddMean(t, name, factors) ==
    IF factors # <<>> THEN WithCol(t, name, MeanCells(factors)) ELSE t

\* The derived columns of FinancialFeatureExtractor.transform, in code order;
\* working_capital_ratio sits inside the branch that creates working_capital.
FinancialFeatureRules ==
    << Rule("revenue_growth", "growth", "revenue", "previous_revenue"),
       Rule("profit_growth", "growth", "net_income", "previous_net_income"),
       Rule("cash_flow_to_income", "div", "operating_cash_flow", "net_income"),
       Rule("cash_flow_to_debt", "div", "operating_cash_flow", "total_debt"),
       Rule("interest_coverage", "div", "ebit", "interest_expense"),
       Rule("working_capital", "sub", "current_assets", "current_liabilities"),
       [name |-> "working_capital_ratio",
        needs |-> {"current_assets", "current_liabilities", "revenue"},
        kind |-> "div", a |-> "working_capital", b |-> "revenue"],
       Rule("debt_service_coverage", "div", "operating_cash_flow", "debt_service") >>

\* FinancialFeatureExtractor.transform: an exception is logged and the table
\* built so far is returned.
FinancialFeatureExtractor(X) ==
    IF RulesRaise(X, FinancialFeatureRules, 1)
    THEN ApplyRules(X, FinancialFeatureRules, 1)
    ELSE ReplaceInf(ApplyRules(X, FinancialFeatureRules, 1))

BusinessFeatureRules ==
    << Rule("revenue_per_employee", "div", "revenue", "employee_count"),
       Rule("profit_per_employee", "div", "net_income", "employee_count") >>

\* stability_factors: age, size and revenue scores.
StabilityRules ==
    << RuleF("age_score", "capped", {"company_age"}, "company_age", Int2Num(10)),
       RuleF("size_score", "capped", {"employee_count"}, "employee_count", Int2Num(100)),
       RuleF("revenue_score", "capped", {"revenue"}, "revenue", Int2Num(1000000)) >>

AddBusinessStability(t) ==
    AddMean(t, "business_stability", FactorValues(t, StabilityRules, 1))

\* The part of BusinessFeatureExtractor.transform after the productivity
\* columns.
StabilityStage(t) ==
    IF FactorsRaise(t, StabilityRules) THEN t ELSE ReplaceInf(AddBusinessStability(t))

\* BusinessFeatureExtractor.transform
BusinessFeatureExtractor(X) ==
    IF RulesRaise(X, BusinessFeatureRules, 1)
    THEN ApplyRules(X, BusinessFeatureRules, 1)
    ELSE StabilityStage(ApplyRules(X, BusinessFeatureRules, 1))

CreditHistoryFeatureRules ==
    << Rule("payment_reliability", "pct", "payments_on_time", "total_payments"),
       Rule("credit_utilization", "pct", "current_debt", "credit_limit"),
       Rule("debt_ratio", "pct", "total_debt", "total_assets") >>

\* risk_factors: late payments, previous defaults, credit utilization.
RiskFactorRules ==
    << Rule("late_payment_risk", "pct", "late_payments", "total_payments"),
       RuleF("default_risk", "scale", {"previous_defaults"}, "previous_defaults",
             Int2Num(25)),
       RuleF("utilization_risk", "scale", {"credit_utilization"}, "credit_utilization",
             Num(1, 2)) >>

AddDefaultRiskScore(t) ==
    AddMean(t, "default_risk_score", FactorValues(t, RiskFactorRules, 1))

\* The part of CreditHistoryFeatureExtractor.transform after the payment,
\* utilization and debt columns.
RiskStage(t) ==
    IF FactorsRaise(t, RiskFactorRules) THEN t ELSE ReplaceInf(AddDefaultRiskScore(t))

\* CreditHistoryFeatureExtractor.transform
CreditHistoryFeatureExtractor(X) ==
    IF RulesRaise(X, CreditHistoryFeatureRules, 1)
    THEN ApplyRules(X, CreditHistoryFeatureRules, 1)
    ELSE RiskStage(ApplyRules(X, CreditHistoryFeatureRules, 1))

\* The allow-lists of FeatureCombiner.transform, in list order.
financial_cols ==
    <<"current_ratio", "cash_ratio", "return_on_assets", "return_on_equity",
      "gross_margin", "net_profit_margin", "debt_to_assets", "debt_to_equity",
      "asset_turnover", "inventory_turnover", "revenue_growth", "profit_growth",
      "cash_flow_to_income", "cash_flow_to_debt", "interest_coverage",
      "working_capital_ratio", "debt_service_coverage">>

business_cols ==
    <<"company_age", "industry_risk", "age_risk", "revenue_per_employee",
      "profit_per_employee", "business_stability", "employee_count">>

credit_cols ==
    <<"payment_reliability", "credit_utilization", "debt_ratio",
      "default_risk_score", "previous_defaults", "late_payments">>

Range(seq) == {seq[i] : i \in 1..Len(seq)}

\* Mutant: every column of the source is taken, allow-listed or not.
Select_AllColumns(t, cols) == t

\* features[existing_cols]
Select(t, cols) == [c \in DOMAIN t \cap Range(cols) |-> t[c]]

\* pd.concat([a, b], axis=1) of one-row tables with disjoint columns.
Concat(a, b) == [c \in DOMAIN a \cup DOMAIN b |-> IF c \in DOMAIN b THEN b[c] ELSE a[c]]

\* The sources in the order FeatureCombiner.transform visits them.
SourceOrder == <<"financial", "business", "credit_history">>

\* The extractor and the allow-list of a source.
SourceFeatures(source, table) ==
    CASE source = "financial" -> Select(FinancialFeatureExtractor(table), financial_cols)
      [] source = "business" -> Select(BusinessFeatureExtractor(table), business_cols)
      [] source = "credit_history" ->
            Select(CreditHistoryFeatureExtractor(table), credit_cols)

\* combined_features after the first i sources.
RECURSIVE CombineSources(_, _)
CombineSources(X, i) ==
    IF i = 0 THEN EmptyTable
    ELSE IF SourceOrder[i] \in DOMAIN X
    THEN Concat(CombineSources(X, i - 1), SourceFeatures(SourceOrder[i], X[SourceOrder[i]]))
    ELSE CombineSources(X, i - 1)

\* The interaction features.
InteractionRules ==
    << Rule("debt_age_interaction", "inv_age", "debt_to_assets", "company_age"),
       Rule("industry_adjusted_roa", "div", "return_on_assets", "industry_risk"),
       Rule("stability_adjusted_risk", "div_plus1", "default_risk_score",
            "business_stability") >>

\* The non-null cells of a batch column, in row order.
RECURSIVE Defined(_)
Defined(cells) ==
    IF cells = <<>> THEN <<>>
    ELSE (IF IsNull(Head(cells)) THEN <<>> ELSE <<Head(cells)>>) \o Defined(Tail(cells))

\* The k-th smallest of a non-empty sequence of numbers.
KthSmallest(vals, k) ==
    CHOOSE x \in Range(vals) :
        /\ Cardinality({i \in 1..Len(vals) : FLt(vals[i], x)}) < k
        /\ k <= Cardinality({i \in 1..Len(vals) : ~FGt(vals[i], x)})

\* Mutant: the mean of the values is taken for their median.
MedianOf_Mean(vals) ==
    IF vals = <<>> THEN NaN
    ELSE MeanCells(vals)

\* The median of a sequence of numbers: the middle one, or the mean of the
\* two middle ones; NaN when there is none.
MedianOf(vals) ==
    IF vals = <<>> THEN NaN
    ELSE IF Len(vals) % 2 = 1 THEN KthSmallest(vals, (Len(vals) + 1) \div 2)
    ELSE FDiv(FAdd(KthSmallest(vals, Len(vals) \div 2),
                   KthSmallest(vals, Len(vals) \div 2 + 1)),
              Int2Num(2))

\* combined_features.median() for one column of the batch (NaN is skipped).
BatchMedian(cells) == MedianOf(Defined(cells))

\* Median of a column of the one-row batch: the cell itself, NaN when null.
ColumnMedian(cell) == BatchMedian(<<cell>>)

\* replace([np.inf, -np.inf], np.nan) on one column of a batch.
ReplaceInfColumn(cells) ==
    [i \in 1..Len(cells) |-> IF cells[i].k = "inf" THEN NaN ELSE cells[i]]

\* fillna(median) on one column of a batch.
FillnaColumn(cells) ==
    [i \in 1..Len(cells) |-> IF IsNull(cells[i]) THEN BatchMedian(cells) ELSE cells[i]]

\* The post-pass of FeatureCombiner.transform on one column of a batch.
PostPassColumn(cells) == FillnaColumn(ReplaceInfColumn(cells))

\* combined_features.fillna(combined_features.median())
FillnaMedian(t) ==
    [c \in DOMAIN t |-> IF IsNull(t[c]) THEN ColumnMedian(t[c]) ELSE t[c]]

\* The post-pass: median() raises TypeError on a column holding a string, and
\* the record is returned without imputation.
MedianStage(t) ==
    IF \E c \in DOMAIN t : t[c].k = "str" THEN t ELSE FillnaMedian(t)

\* Mutant: a failing interaction feature discards the record built so far.
InteractionStage_Discard(t) ==
    IF RulesRaise(t, InteractionRules, 1)
    THEN EmptyTable
    ELSE MedianStage(ReplaceInf(ApplyRules(t, InteractionRules, 1)))

\* The interaction features and the post-pass: an exception is logged and
\* combined_features is returned as it is at that point.
InteractionStage(t) ==
    IF RulesRaise(t, InteractionRules, 1)
    THEN ApplyRules(t, InteractionRules, 1)
    ELSE MedianStage(ReplaceInf(ApplyRules(t, InteractionRules, 1)))

\* FeatureCombiner.transform
FeatureCombiner(X) == InteractionStage(CombineSources(X, Len(SourceOrder)))

\* extract_features
extract_features(preprocessed_data) == FeatureCombiner(preprocessed_data)

\* ------------------------------------------------------------------------
\* credit_scoring.py: the decision engine
\* ------------------------------------------------------------------------
\* self.credit_categories
credit_categories ==
    [A |-> [score |-> Int2Num(90), description |-> "Excellent credit, very low risk"],
     B |-> [score |-> Int2Num(80), description |-> "Good credit, low risk"],
     C |-> [score |-> Int2Num(70), description |-> "Fair credit, moderate risk"],
     D |-> [score |-> Int2Num(60), description |-> "Below average credit, high risk"],
     E |-> [score |-> Int2Num(50), description |-> "Poor credit, very high risk"]]

\* Mutant: the lookup is skipped and the fallback entry is always reported.
CategoryDetails_NoLookup(credit_category, fallback) ==
    [score |-> fallback,
     description |-> IF credit_category \in DOMAIN credit_categories
                     THEN credit_categories[credit_category].description ELSE "Unknown"]

\* self.credit_categories.get(credit_category, {'score': fallback, 'description': 'Unknown'})
CategoryDetails(credit_category, fallback) ==
    IF credit_category \in DOMAIN credit_categories
    THEN credit_categories[credit_category]
    ELSE [score |-> fallback, description |-> "Unknown"]

\* Mutant: the first row compares with <= instead of <.
assess_risk_Inclusive(credit_category, default_probability) ==
    IF credit_category = "A" /\ ~FGt(default_probability, Num(5, 100))
       /\ default_probability.k # "nan"
    THEN [risk_level |-> "Very Low", recommendation |-> "Highly recommended for approval"]
    ELSE IF credit_category \in {"A", "B"} /\ FLt(default_probability, Num(10, 100))
    THEN [risk_level |-> "Low", recommendation |-> "Recommended for approval"]
    ELSE IF credit_category \in {"B", "C"} /\ FLt(default_probability, Num(15, 100))
    THEN [risk_level |-> "Moderate", recommendation |-> "Consider approval with standard terms"]
    ELSE IF credit_category \in {"C", "D"} /\ FLt(default_probability, Num(25, 100))
    THEN [risk_level |-> "High", recommendation |-> "Consider approval with stricter terms"]
    ELSE [risk_level |-> "Very High", recommendation |-> "Not recommended for approval"]

\* _assess_risk
assess_risk(credit_category, default_probability) ==
    IF credit_category = "A" /\ FLt(default_probability, Num(5, 100))
    THEN [risk_level |-> "Very Low", recommendation |-> "Highly recommended for approval"]
    ELSE IF credit_category \in {"A", "B"} /\ FLt(default_probability, Num(10, 100))
    THEN [risk_level |-> "Low", recommendation |-> "Recommended for approval"]
    ELSE IF credit_category \in {"B", "C"} /\ FLt(default_probability, Num(15, 100))
    THEN [risk_level |-> "Moderate", recommendation |-> "Consider approval with standard terms"]
    ELSE IF credit_category \in {"C", "D"} /\ FLt(default_probability, Num(25, 100))
    THEN [risk_level |-> "High", recommendation |-> "Consider approval with stricter terms"]
    ELSE [risk_level |-> "Very High", recommendation |-> "Not recommended for approval"]

\* The factors of _heuristic_scoring in code order: <<source, column>>.
HeuristicFactorTable ==
    << <<"financial", "return_on_assets">>,
       <<"financial", "current_ratio">>,
       <<"financial", "debt_to_equity">>,
       <<"business", "company_age">>,
       <<"business", "industry_risk">>,
       <<"credit_history", "payment_reliability">>,
       <<"credit_history", "previous_defaults">> >>

\* Mutant: the liquidity factor is scaled by 20 instead of 25.
ScoreFactor_Scale20(col, v) ==
    CASE col = "return_on_assets" ->
            PyMin(PyMax(FMul(v, Int2Num(100)), Int2Num(0)), Int2Num(100))
      [] col = "current_ratio" ->
            PyMin(PyMax(FMul(v, Int2Num(20)), Int2Num(0)), Int2Num(100))
      [] col = "debt_to_equity" ->
            PyMin(PyMax(FSub(Int2Num(100), FMul(v, Int2Num(20))), Int2Num(0)), Int2Num(100))
      [] col = "company_age" ->
            PyMin(PyMax(FMul(v, Int2Num(5)), Int2Num(0)), Int2Num(100))
      [] col = "industry_risk" ->
            PyMin(PyMax(FSub(Int2Num(100), FMul(v, Int2Num(10))), Int2Num(0)), Int2Num(100))
      [] col = "payment_reliability" -> v
      [] col = "previous_defaults" ->
            PyMax(FSub(Int2Num(100), FMul(v, Int2Num(25))), Int2Num(0))

\* The value appended to score_factors for a column holding v.
ScoreFactor(col, v) ==
    CASE col = "return_on_assets" ->
            PyMin(PyMax(FMul(v, Int2Num(100)), Int2Num(0)), Int2Num(100))
      [] col = "current_ratio" ->
            PyMin(PyMax(FMul(v, Int2Num(25)), Int2Num(0)), Int2Num(100))
      [] col = "debt_to_equity" ->
            PyMin(PyMax(FSub(Int2Num(100), FMul(v, Int2Num(20))), Int2Num(0)), Int2Num(100))
      [] col = "company_age" ->
            PyMin(PyMax(FMul(v, Int2Num(5)), Int2Num(0)), Int2Num(100))
      [] col = "industry_risk" ->
            PyMin(PyMax(FSub(Int2Num(100), FMul(v, Int2Num(10))), Int2Num(0)), Int2Num(100))
      [] col = "payment_reliability" -> v
      [] col = "previous_defaults" ->
            PyMax(FSub(Int2Num(100), FMul(v, Int2Num(25))), Int2Num(0))

\* The rows of HeuristicFactorTable whose source was passed and whose column
\* exists in the preprocessed table of that source, each with its cell.
RECURSIVE GatheredFrom(_, _)
GatheredFrom(preprocessed_data, i) ==
    IF i > Len(HeuristicFactorTable) THEN <<>>
    ELSE (IF HeuristicFactorTable[i][1] \in DOMAIN preprocessed_data
             /\ HeuristicFactorTable[i][2]
                    \in DOMAIN preprocessed_data[HeuristicFactorTable[i][1]]
          THEN << [col |-> HeuristicFactorTable[i][2],
                   cell |-> preprocessed_data[HeuristicFactorTable[i][1]]
                                             [HeuristicFactorTable[i][2]]] >>
          ELSE <<>>)
         \o GatheredFrom(preprocessed_data, i + 1)

\* Mutant: the thresholds compare with > instead of >=.
HeuristicCategory_Strict(overall_score) ==
    IF FGt(overall_score, Int2Num(90)) THEN "A"
    ELSE IF FGt(overall_score, Int2Num(80)) THEN "B"
    ELSE IF FGt(overall_score, Int2Num(70)) THEN "C"
    ELSE IF FGt(overall_score, Int2Num(60)) THEN "D"
    ELSE "E"

\* The category thresholds of _heuristic_scoring.
HeuristicCategory(overall_score) ==
    IF FGe(overall_score, Int2Num(90)) THEN "A"
    ELSE IF FGe(overall_score, Int2Num(80)) THEN "B"
    ELSE IF FGe(overall_score, Int2Num(70)) THEN "C"
    ELSE IF FGe(overall_score, Int2Num(60)) THEN "D"
    ELSE "E"

\* Mutant: the probability is not clamped.
HeuristicProbability_Unclamped(overall_score) ==
    FSub(Int2Num(1), FDiv(overall_score, Int2Num(100)))

\* max(0, min(1, 1 - (overall_score / 100)))
HeuristicProbability(overall_score) ==
    PyMax(Int2Num(0),
          PyMin(Int2Num(1), FSub(Int2Num(1), FDiv(overall_score, Int2Num(100)))))

HeuristicNote == "Heuristic scoring used (models not loaded)"

\* Mutant: a category outside credit_categories is reported with the entry
\* of E.
ScoredResult_UnknownAsE(credit_category, default_probability, fallback, now) ==
    [credit_score |->
         [category |-> credit_category,
          numerical_score |-> CategoryDetails(
              IF credit_category \in DOMAIN credit_categories
              THEN credit_category ELSE "E", fallback).score,
          description |-> CategoryDetails(
              IF credit_category \in DOMAIN credit_categories
              THEN credit_category ELSE "E", fallback).description],
     default_probability |-> default_probability,
     risk_assessment |-> assess_risk(credit_category, default_probability),
     timestamp |-> now]

\* The result record both paths build from category and probability; the
\* fallback is the score reported for a category outside credit_categories.
ScoredResult(credit_category, default_probability, fallback, now) ==
    [credit_score |->
         [category |-> credit_category,
          numerical_score |-> CategoryDetails(credit_category, fallback).score,
          description |-> CategoryDetails(credit_category, fallback).description],
     default_probability |-> default_probability,
     risk_assessment |-> assess_risk(credit_category, default_probability),
     timestamp |-> now]

\* result[name] = value
WithField(rec, name, value) ==
    [f \in DOMAIN rec \cup {name} |-> IF f = name THEN value ELSE rec[f]]

\* score_factors of the gathered cells.
ScoreFactors(gathered) ==
    [i \in 1..Len(gathered) |-> ScoreFactor(gathered[i].col, gathered[i].cell)]

\* sum(score_factors) / len(score_factors), 50 when no factor was gathered.
OverallScore(score_factors) ==
    IF score_factors # <<>> THEN MeanCells(score_factors) ELSE Int2Num(50)

\* The part of _heuristic_scoring after overall_score is known.
HeuristicResult(score_factors, overall_score, now) ==
    [raised |-> FALSE, score_factors |-> score_factors,
     overall_score |-> overall_score,
     result |-> WithField(ScoredResult(HeuristicCategory(overall_score),
                                       HeuristicProbability(overall_score),
                                       overall_score, now),
                          "note", HeuristicNote)]

\* The part of _heuristic_scoring after the factors were gathered.
HeuristicFromFactors(score_factors, now) ==
    HeuristicResult(score_factors, OverallScore(score_factors), now)

\* The part of _heuristic_scoring that scores the gathered cells: arithmetic on
\* a None cell raises TypeError.
HeuristicFromGathered(gathered, now) ==
    IF \E i \in 1..Len(gathered) : ~IsFloat(gathered[i].cell)
    THEN [raised |-> TRUE, score_factors |-> <<>>, overall_score |-> NaN,
          result |-> [timestamp |-> now]]
    ELSE HeuristicFromFactors(ScoreFactors(gathered), now)

\* _heuristic_scoring
heuristic_scoring(preprocessed_data, now) ==
    HeuristicFromGathered(GatheredFrom(preprocessed_data, 1), now)

\* features.columns.tolist(): the allow-listed columns in list order, source
\* by source, then the interaction features.
FeatureColumnOrder ==
    financial_cols \o business_cols \o credit_cols
    \o <<"debt_age_interaction", "industry_adjusted_roa", "stability_adjusted_risk">>

FeatureNames(features) ==
    LET present(c) == c \in DOMAIN features
    IN  SelectSeq(FeatureColumnOrder, present)

\* Mutant: the indices are sorted by ascending importance.
SortedPosition_Ascending(importances, i) ==
    Cardinality({j \in 1..Len(importances) :
                    importances[j] < importances[i]
                    \/ (importances[j] = importances[i] /\ j < i)}) + 1

\* Position of index i in np.argsort(importances)[::-1]: descending
\* importance; among equal importances the reversal puts the later index first.
SortedPosition(importances, i) ==
    Cardinality({j \in 1..Len(importances) :
                    importances[j] > importances[i]
                    \/ (importances[j] = importances[i] /\ j > i)}) + 1

\* np.argsort(importances)[::-1]
SortedIndices(importances) ==
    [p \in 1..Len(importances) |->
        CHOOSE i \in 1..Len(importances) : SortedPosition(importances, i) = p]

TopFactors == 5

\* The first TopFactors sorted indices that are below len(feature_names).
RECURSIVE UsedIndices(_, _, _)
UsedIndices(sorted_indices, names, p) ==
    IF p > Len(sorted_indices) \/ p > TopFactors THEN <<>>
    ELSE (IF sorted_indices[p] <= Len(names) THEN <<sorted_indices[p]>> ELSE <<>>)
         \o UsedIndices(sorted_indices, names, p + 1)

\* One entry of explanatory_factors.
ExplanatoryFactor(name, importance, value) ==
    [factor |-> name, importance |-> importance, value |-> value,
     impact |-> IF IsFloat(value) /\ FGt(value, Int2Num(0))
                THEN "positive" ELSE "negative"]

\* The loop of _get_explanatory_factors: comparing a None value with 0 raises.
ExplanatoryFactors(importances, features, names, used) ==
    [raised |-> \E p \in 1..Len(used) : ~IsFloat(features[names[used[p]]]),
     factors |-> [p \in 1..Len(used) |->
                    ExplanatoryFactor(names[used[p]], importances[used[p]],
                                      features[names[used[p]]])]]

\* _get_explanatory_factors
get_explanatory_factors(importances, features) ==
    ExplanatoryFactors(importances, features, FeatureNames(features),
                       UsedIndices(SortedIndices(importances), FeatureNames(features), 1))

\* What a model call can do: raise, or return a value.
Raises == "<raises>"

EstRaises == [k |-> "raises"]

\* No model loaded (None).
NoModel == [loaded |-> FALSE]

\* A loaded classifier fitted on n feature columns; feature_importances_ = <<>>
\* stands for None (no random forest or gradient boosting sub-model).
Classifier(importances, n) ==
    [loaded |-> TRUE, feature_importances_ |-> importances, n_features_in_ |-> n]

Estimator == [loaded |-> TRUE]

\* default_probability on the model path.
\* Mutant: without an estimator the probability starts at one half.
ModelProbability_Half(dpm, est_out) == IF dpm.loaded THEN est_out ELSE Num(1, 2)

ModelProbability(dpm, est_out) == IF dpm.loaded THEN est_out ELSE Int2Num(0)

\* The explanatory factors are added to the result when the classifier has
\* feature importances.
WithExplanatory(base, expl, now) ==
    IF expl.raised
    THEN [raised |-> TRUE, result |-> [timestamp |-> now]]
    ELSE [raised |-> FALSE,
          result |-> WithField(base, "explanatory_factors", expl.factors)]

\* The model path of score_borrower (after the features.empty check).
model_scoring(csm, dpm, features, clf_out, est_out, now) ==
    IF clf_out = Raises \/ (dpm.loaded /\ est_out = EstRaises)
    THEN [raised |-> TRUE, result |-> [timestamp |-> now]]
    ELSE IF csm.feature_importances_ = <<>>
    THEN [raised |-> FALSE,
          result |-> ScoredResult(clf_out, ModelProbability(dpm, est_out),
                                  Int2Num(0), now)]
    ELSE WithExplanatory(ScoredResult(clf_out, ModelProbability(dpm, est_out),
                                      Int2Num(0), now),
                         get_explanatory_factors(csm.feature_importances_, features),
                         now)

InsufficientData == "Insufficient data for credit scoring"

ScoringFailed == "Credit scoring failed"

\* Mutant: the error record carries no timestamp.
ErrorResult_NoTimestamp(msg, now) == [error |-> msg]

\* The record the early return and the except handler of score_borrower build.
ErrorResult(msg, now) == [error |-> msg, timestamp |-> now]

\* Placeholder for locals the call did not reach.
NoFrame ==
    [path |-> "none", preprocessed_data |-> EmptyTable, features |-> EmptyTable,
     model_calls |-> {}, score_factors |-> <<>>, overall_score |-> NaN,
     arguments |-> EmptyTable]

\* Mutant: the heuristic is also used when only the estimator is missing.
UseHeuristic_EitherMissing(csm, dpm) == ~csm.loaded \/ ~dpm.loaded

\* if self.credit_score_model is None
UseHeuristic(csm, dpm) == ~csm.loaded

\* The models the model path asks before it returns or raises.
ModelCalls(dpm, clf_out) ==
    IF dpm.loaded /\ clf_out # Raises THEN {"classifier", "estimator"} ELSE {"classifier"}

\* The locals of a call that got past feature extraction.
Reached(preprocessed_data, features) ==
    [NoFrame EXCEPT !.preprocessed_data = preprocessed_data, !.features = features]

\* score_borrower returning what _heuristic_scoring returned or raised.
HeuristicReturn(h, reached, now) ==
    IF h.raised
    THEN [result |-> ErrorResult(ScoringFailed, now),
          frame |-> [reached EXCEPT !.path = "except"]]
    ELSE [result |-> h.result,
          frame |-> [reached EXCEPT !.path = "heuristic",
                                    !.score_factors = h.score_factors,
                                    !.overall_score = h.overall_score]]

\* score_borrower returning what the model path built or raised.
ModelReturn(m, reached, calls, now) ==
    IF m.raised
    THEN [result |-> ErrorResult(ScoringFailed, now),
          frame |-> [reached EXCEPT !.path = "except", !.model_calls = calls]]
    ELSE [result |-> m.result,
          frame |-> [reached EXCEPT !.path = "model", !.model_calls = calls]]

\* Mutant: the features.empty check is left out.
ScoreFeatures_NoEmptyCheck(csm, dpm, preprocessed_data, features, clf_out, est_out, now) ==
    IF UseHeuristic(csm, dpm)
    THEN HeuristicReturn(heuristic_scoring(preprocessed_data, now),
                         Reached(preprocessed_data, features), now)
    ELSE ModelReturn(model_scoring(csm, dpm, features, clf_out, est_out, now),
                     Reached(preprocessed_data, features),
                     ModelCalls(dpm, clf_out), now)

\* score_borrower from the features.empty check on.
ScoreFeatures(csm, dpm, preprocessed_data, features, clf_out, est_out, now) ==
    IF DOMAIN features = {}
    THEN [result |-> ErrorResult(InsufficientData, now),
          frame |-> [Reached(preprocessed_data, features) EXCEPT !.path = "empty"]]
    ELSE IF UseHeuristic(csm, dpm)
    THEN HeuristicReturn(heuristic_scoring(preprocessed_data, now),
                         Reached(preprocessed_data, features), now)
    ELSE ModelReturn(model_scoring(csm, dpm, features, clf_out, est_out, now),
                     Reached(preprocessed_data, features),
                     ModelCalls(dpm, clf_out), now)

\* score_borrower after preprocess_data returned or raised.
ScorePreprocessed(csm, dpm, pre, clf_out, est_out, now) ==
    IF pre.raised
    THEN [result |-> ErrorResult(ScoringFailed, now),
          frame |-> [NoFrame EXCEPT !.path = "except"]]
    ELSE ScoreFeatures(csm, dpm, pre.data, extract_features(pre.data),
                       clf_out, est_out, now)

\* score_borrower: returns the result record and the locals it computed.
\* path tells which branch produced the return value, model_calls which
\* models were asked.
score_borrower(csm, dpm, req, clf_out, est_out, now, current_year) ==
    ScorePreprocessed(csm, dpm, preprocess_data(req, current_year),
                      clf_out, est_out, now)

\* Mutant: the transform works on its argument, without data.copy().
ArgumentAfter_InPlace(X, transformed) == transformed

\* data.copy() / X.copy(): a transform adds its columns to a copy, and the
\* table it was given is afterwards what it was.
ArgumentAfter(X, transformed) == X

\* The tables the caller passed, as they are when score_borrower has
\* returned.  calculate_financial_ratios and preprocess_data copy the
\* financial and the business table; the credit-history table itself goes
\* into preprocessed_data and is copied by its feature extractor.
CallerRecords(req, current_year) ==
    [s \in DOMAIN req |->
        CASE s = "financial" -> ArgumentAfter(req[s], calculate_financial_ratios(req[s]))
          [] s = "business" ->
                ArgumentAfter(req[s], PreprocessBusiness(req[s], current_year).data)
          [] s = "credit_history" ->
                ArgumentAfter(req[s], CreditHistoryFeatureExtractor(req[s]))]

\* datetime.now() is counted in half seconds.
TicksPerSecond == 2

\* datetime.now().strftime('%Y%m%d_%H%M%S'): the time cut to whole seconds.
Strftime(now) == now \div TicksPerSecond

\* f"credit_assessment_{timestamp}.json"
FileName(timestamp) ==
    [prefix |-> "credit_assessment_", timestamp |-> timestamp, ext |-> ".json"]

\* os.path.join(output_dir, filename)
PathJoin(output_dir, filename) == <<output_dir, filename>>

\* A file is the sequence of the texts it holds: <<>> when empty, <<a>> when
\* it is the JSON text of a, <<b, a>> when the text of b is followed by what
\* is left of the longer text of a.
\* The text of old is longer than the text of new: old has every entry of
\* new with the same value (timestamps, all of one length, aside) and more.
LongerText(old, new) ==
    /\ DOMAIN new \subseteq DOMAIN old
    /\ DOMAIN new # DOMAIN old
    /\ \A k \in DOMAIN new \ {"timestamp"} : old[k] = new[k]

\* open(filepath, 'w'): the file is created, or cut to length 0.
OpenForWriting(dir, filename) ==
    [f \in DOMAIN dir \cup {filename} |-> IF f = filename THEN <<>> ELSE dir[f]]

\* json.dump(assessment, f) and the close that ends the with block: the text
\* goes to the file from position 0 on, over what the file holds by then.
DumpAndClose(dir, filename, content) ==
    LET Beyond(old) == LongerText(old, content)
    IN  [f \in DOMAIN dir \cup {filename} |->
            IF f # filename THEN dir[f]
            ELSE IF f \in DOMAIN dir THEN <<content>> \o SelectSeq(dir[f], Beyond)
            ELSE <<content>>]

\* open(filepath, 'w') and json.dump with no other writer in between: the
\* file is created or replaced.
WriteFile(dir, filename, content) ==
    DumpAndClose(OpenForWriting(dir, filename), filename, content)

\* Mutant: the file is named after the timestamp field of the assessment.
save_assessment_RecordTime(dir, assessment, output_dir, now) ==
    [directory |-> WriteFile(dir, FileName(Strftime(assessment.timestamp)), assessment),
     filepath |-> PathJoin(output_dir, FileName(Strftime(assessment.timestamp)))]

\* save_assessment: dir is the content of output_dir, now is datetime.now()
\* at the time of the call.
save_assessment(dir, assessment, output_dir, now) ==
    [directory |-> WriteFile(dir, FileName(Strftime(now)), assessment),
     filepath |-> PathJoin(output_dir, FileName(Strftime(now)))]

\* _load_models: credit and default are the states of the two artifact files,
\* "missing", "corrupt" (joblib.load raises) or the object the file holds.  A
\* failing load leaves the try block, so nothing after it is loaded.
load_models(files) ==
    LET credit_fails == files.credit = [file |-> "corrupt"]
        credit == IF files.credit.file = "ok" THEN files.credit.model ELSE NoModel
        default == IF ~credit_fails /\ files.default.file = "ok"
                   THEN files.default.model ELSE NoModel
    IN  [credit_score_model |-> credit, default_probability_model |-> default]

\* ------------------------------------------------------------------------
\* models.py: CreditScoreClassifier.predict for one row
\* ------------------------------------------------------------------------
\* One column of the summed one-hot votes divided by len(self.models).
EnsembleProb(class, preds) ==
    FDiv(Int2Num(Cardinality({i \in 1..Len(preds) : preds[i] = class})),
         Int2Num(Len(preds)))

\* ensemble_probs for the row, one entry per class of classes_.
EnsembleProbs(classes_, preds) ==
    [j \in 1..Len(classes_) |-> EnsembleProb(classes_[j], preds)]

\* Mutant: among equal maxima the last index is taken.
ArgMax_Last(probs) ==
    CHOOSE j \in 1..Len(probs) :
        /\ \A k \in 1..Len(probs) : ~FGt(probs[k], probs[j])
        /\ \A k \in (j + 1)..Len(probs) : FLt(probs[k], probs[j])

\* np.argmax: the first index holding the maximum.
ArgMax(probs) ==
    CHOOSE j \in 1..Len(probs) :
        /\ \A k \in 1..Len(probs) : ~FGt(probs[k], probs[j])
        /\ \A k \in 1..(j - 1) : FLt(probs[k], probs[j])

\* CreditScoreClassifier.predict for one row: preds are the predictions of
\* self.models in insertion order.
predict(model_type, classes_, preds) ==
    IF preds = <<>> THEN Raises
    ELSE IF model_type # "ensemble" THEN preds[1]
    ELSE classes_[ArgMax(EnsembleProbs(classes_, preds))]

\* ------------------------------------------------------------------------
\* Inputs
\* ------------------------------------------------------------------------
MaxClock == 2

MaxDefaults == 5

MaxPayments == 2

\* The year the run starts in, and the clock value at which the next begins.
BaseYear == 2024

\* The year changes with a second.
NewYearAt == TicksPerSecond

YearOf(t) == IF t < NewYearAt THEN BaseYear ELSE BaseYear + 1

N(i) == Int2Num(i)

\* The columns pd.DataFrame([model.dict()]) creates for the request models
\* of the API: every declared field, None where the caller gave none.
FinancialDataFields ==
    {"current_assets", "current_liabilities", "total_assets", "total_liabilities",
     "total_equity", "total_debt", "revenue", "previous_revenue",
     "cost_of_goods_sold", "gross_profit", "operating_expenses", "operating_income",
     "net_income", "previous_net_income", "cash", "inventory",
     "operating_cash_flow", "ebit", "interest_expense", "debt_service"}

BusinessDataFields ==
    {"company_name", "industry", "founded_year", "employee_count", "annual_revenue",
     "business_type", "years_in_business", "country", "region"}

CreditHistoryDataFields ==
    {"previous_loans", "previous_defaults", "total_payments", "payments_on_time",
     "late_payments", "current_debt", "credit_limit", "external_credit_score"}

\* A row of the API: the given fields, None for the other declared fields.
ApiRow(fields, given) ==
    [c \in fields \cup DOMAIN given |-> IF c \in DOMAIN given THEN given[c] ELSE None]

\* Financial records: the inputs of the three ratios the heuristic reads.
SixFields(ni, ta, ca, cl, td, te) ==
    [net_income |-> ni, total_assets |-> ta, current_assets |-> ca,
     current_liabilities |-> cl, total_debt |-> td, total_equity |-> te]

FinGood == SixFields(N(1), N(1), N(4), N(1), N(0), N(1))

FinMid == SixFields(N(1), N(2), N(3), N(1), N(1), N(1))

FinancialRich ==
    {FinGood, FinMid,
     SixFields(N(1), N(0), N(1), N(0), N(1), N(0)),
     SixFields(N(0), N(0), N(0), N(0), N(0), N(0)),
     SixFields(N(-1), N(1), N(-1), N(1), N(6), N(1)),
     SixFields(N(3), N(1), N(9), N(1), N(-1), N(1)),
     SixFields(NaN, N(1), N(1), NaN, N(1), N(1)),
     SixFields(None, N(1), N(2), N(1), None, None)}
    \cup {[net_income |-> N(a), total_assets |-> N(b)] : a \in {-1, 1, 9}, b \in {0, 10}}
    \cup {[current_assets |-> N(a), current_liabilities |-> N(1)] : a \in {2, 4}}
    \cup {[total_debt |-> N(a), total_equity |-> N(2)] : a \in {1, 2}}
    \cup {[gross_profit |-> N(1), revenue |-> N(2)], [revenue |-> N(5)],
          [return_on_assets |-> None], [current_ratio |-> N(2)],
          [revenue |-> N(4), previous_revenue |-> N(0)],
          [revenue |-> N(4), previous_revenue |-> N(2)],
          [operating_cash_flow |-> N(1), net_income |-> N(0), total_debt |-> N(2)],
          [current_assets |-> N(3), current_liabilities |-> N(1), revenue |-> N(0)],
          [current_assets |-> N(3), current_liabilities |-> N(1), revenue |-> N(4)]}
    \cup {ApiRow(FinancialDataFields, g) :
            g \in {EmptyTable, [net_income |-> N(1), total_assets |-> N(2)],
                   [revenue |-> N(3), gross_profit |-> N(1)]}}

FinancialLean == {FinGood, FinMid}

\* Business records.
IndustryValues ==
    {Str("retail"), Str("Retail"), Str("HEALTHCARE"), Str("hospitality"),
     Str("space_mining"), None, NaN}

AgeValues == {-1, 0, 1, 2, 3, 12, 14, 16, 18, 20, 21}

FoundedYearValues == {N(BaseYear - a) : a \in AgeValues} \cup {None, NaN}

BusinessRich ==
    {[industry |-> i] : i \in IndustryValues}
    \cup {[founded_year |-> y] : y \in FoundedYearValues}
    \cup {[company_age |-> N(a)] : a \in {-1, 0, 18, 30}}
    \cup {[industry |-> Str("retail"), founded_year |-> N(BaseYear - 18),
           employee_count |-> N(50), revenue |-> N(500000), net_income |-> N(100)],
          [employee_count |-> N(0), revenue |-> N(1), net_income |-> N(1)],
          [company_name |-> Str("acme")]}
    \cup {ApiRow(BusinessDataFields, g) :
            g \in {EmptyTable, [industry |-> Str("retail")],
                   [industry |-> Str("energy"), founded_year |-> N(BaseYear - 16),
                    employee_count |-> N(10)]}}

BusinessLean ==
    {[founded_year |-> N(BaseYear - 20)],
     [industry |-> Str("healthcare"), founded_year |-> N(BaseYear - 3)]}

\* Credit-history records.
ReliabilityValues ==
    {N(r) : r \in {-10, 0, 59, 60, 70, 79, 80, 85, 90, 95, 96, 100, 150}}
    \cup {NaN, None, Inf(1)}

CreditRich ==
    {[payment_reliability |-> r] : r \in ReliabilityValues}
    \cup {[previous_defaults |-> N(d)] : d \in -1..MaxDefaults}
    \cup {[previous_defaults |-> None], [previous_defaults |-> NaN]}
    \cup {[payments_on_time |-> N(a), total_payments |-> N(b)] :
            a \in 0..MaxPayments, b \in 0..MaxPayments}
    \cup {[late_payments |-> N(1), total_payments |-> N(0), previous_defaults |-> N(1),
           current_debt |-> N(1), credit_limit |-> N(2)],
          [previous_loans |-> N(2)]}
    \cup {ApiRow(CreditHistoryDataFields, g) :
            g \in {EmptyTable, [previous_defaults |-> N(0)],
                   [previous_defaults |-> N(1), payments_on_time |-> N(9),
                    total_payments |-> N(10)]}}

CreditLean ==
    {[payment_reliability |-> N(100), previous_defaults |-> N(0)],
     [payment_reliability |-> N(150), previous_defaults |-> N(-1)]}

LeanTables(source) ==
    CASE source = "financial" -> FinancialLean
      [] source = "business" -> BusinessLean
      [] source = "credit_history" -> CreditLean

\* The call score_borrower(financial_data, business_data, credit_history_data):
\* a function from the sources that are not None to their one-row tables.
OneSource(name, tables) == {[s \in {name} |-> t] : t \in tables}

Requests ==
    OneSource("financial", FinancialRich)
    \cup OneSource("business", BusinessRich)
    \cup OneSource("credit_history", CreditRich)
    \cup {r \in UNION {[S -> FinancialLean \cup BusinessLean \cup CreditLean] :
                         S \in SUBSET {"financial", "business", "credit_history"}} :
            \A s \in DOMAIN r : r[s] \in LeanTables(s)}

\* What the model artifacts can hold and what the loaded models can answer.
\* The importances of a fitted forest: one per feature column of the fit.
ImportanceVectors == {<<1>>, <<1, 2, 2, 5, 4, 3, 6>>, <<3, 1, 4, 1, 5, 9, 2, 6>>}

\* The column counts of the classifiers fitted without importances.
PlainFitSizes == {1, 5}

CreditArtifacts ==
    {[file |-> "missing"], [file |-> "corrupt"]}
    \cup {[file |-> "ok", model |-> Classifier(v, Len(v))] : v \in ImportanceVectors}
    \cup {[file |-> "ok", model |-> Classifier(<<>>, n)] : n \in PlainFitSizes}

DefaultArtifacts ==
    {[file |-> "missing"], [file |-> "corrupt"], [file |-> "ok", model |-> Estimator]}

ClassifierOutcomes == {"A", "B", "C", "D", "E", "F", Raises}

EstimatorOutcomes ==
    {Num(p, 100) : p \in {-10, 3, 5, 10, 15, 25, 120}}
    \cup {NaN, EstRaises}

\* What self.credit_score_model.predict(features) can answer: the sub-models
\* reject a record whose column count differs from the one they were fitted
\* on; otherwise any label, or an exception.
ClassifierAnswers(csm, features) ==
    IF csm.loaded /\ Cardinality(DOMAIN features) = csm.n_features_in_
    THEN ClassifierOutcomes ELSE {Raises}

\* ------------------------------------------------------------------------
\* State
\* ------------------------------------------------------------------------
VARIABLES
    model_files,                 \* the two artifact files under model_dir
    credit_score_model,          \* self.credit_score_model
    default_probability_model,   \* self.default_probability_model
    clock,                       \* datetime.now(), in seconds since the start
    pc,                          \* "idle", or "scored" while a result is held
    request,                     \* the arguments of the call being served
    frame,                       \* the locals of that call
    result,                      \* the record score_borrower returned
    call,                        \* a library function called on its own
    returned,                    \* what that call returned
    directory,                   \* the files of the assessments directory
    response,                    \* the HTTP response of the request being served
    tasks                        \* the background tasks added and not yet done

vars == <<model_files, credit_score_model, default_probability_model, clock,
          pc, request, frame, result, call, returned, directory, response, tasks>>

\* No library function is being called on its own.
NoCall == [fn |-> "none"]

NoRequest == EmptyTable

\* No request is being answered.
NoResponse == [status_code |-> 0]

NoResult == EmptyTable

\* CreditScoringSystem.__init__
Init ==
    /\ model_files \in [credit : CreditArtifacts, default : DefaultArtifacts]
    /\ credit_score_model = load_models(model_files).credit_score_model
    /\ default_probability_model = load_models(model_files).default_probability_model
    /\ clock = 0
    /\ pc = "idle"
    /\ request = NoRequest
    /\ frame = NoFrame
    /\ result = NoResult
    /\ call = NoCall
    /\ returned = NoCall
    /\ directory = EmptyTable
    /\ response = NoResponse
    /\ tasks = <<>>

\* One call of score_borrower with one of the given requests.  The
\* classifier and the estimator are asked only on the model path; their
\* answers are the nondeterministic inputs.
Score(requests) ==
    /\ pc = "idle"
    /\ \E req \in requests :
       \E clf_out \in ClassifierAnswers(
                         credit_score_model,
                         extract_features(preprocess_data(req, YearOf(clock)).data)) :
       \E est_out \in (IF credit_score_model.loaded /\ default_probability_model.loaded
                          /\ clf_out # Raises
                       THEN EstimatorOutcomes ELSE {EstRaises}) :
          LET r == score_borrower(credit_score_model, default_probability_model,
                                  req, clf_out, est_out, clock, YearOf(clock))
          IN  /\ request' = req
              /\ frame' = [r.frame EXCEPT
                              !.arguments = CallerRecords(req, YearOf(clock))]
              /\ result' = r.result
    /\ pc' = "scored"
    /\ UNCHANGED <<model_files, credit_score_model, default_probability_model, clock,
                   call, returned, directory,
                   response, tasks>>

\* One call of score_borrower with a well-typed request.
ScoreBorrower == Score(Requests)

\* The caller takes the result; the system is ready for the next call.
Return ==
    /\ pc = "scored"
    /\ pc' = "idle"
    /\ request' = NoRequest
    /\ frame' = NoFrame
    /\ result' = NoResult
    /\ UNCHANGED <<model_files, credit_score_model, default_probability_model, clock,
                   call, returned, directory,
                   response, tasks>>

\* Time passes between calls.
Tick ==
    /\ pc = "idle"
    /\ clock < MaxClock
    /\ clock' = clock + 1
    /\ UNCHANGED <<model_files, credit_score_model, default_probability_model,
                   pc, request, frame, result, call, returned, directory,
                   response, tasks>>

Next == ScoreBorrower \/ Return \/ Tick

Spec == Init /\ [][Next]_vars

\* ------------------------------------------------------------------------
\* Records with a string in a numeric field
\* ------------------------------------------------------------------------
\* Requests in which a numeric field of the business or credit-history record
\* holds text (as a column read from an uploaded file can), next to two
\* well-typed ones.
MalformedRequests ==
    {[financial |-> FinGood, business |-> [company_age |-> Str("18")]],
     [financial |-> FinGood,
      business |-> [industry |-> Str("retail"), company_age |-> Str("18")]],
     [financial |-> FinMid,
      business |-> [industry_risk |-> Str("low"), company_age |-> N(18)]],
     [business |-> [founded_year |-> N(BaseYear - 18)],
      credit_history |-> [default_risk_score |-> Str("high"),
                          payment_reliability |-> N(90)]],
     [credit_history |-> [late_payments |-> Str("two")]],
     [credit_history |-> [previous_defaults |-> Str("none")]],
     [business |-> [employee_count |-> Str("ten"), revenue |-> N(1)]],
     [business |-> [company_age |-> Str("18")]],
     [financial |-> FinGood, business |-> [company_age |-> N(18)]],
     [financial |-> FinMid]}

\* One call of score_borrower with such a request.
ScoreMalformed == Score(MalformedRequests)

MalformedNext == ScoreMalformed \/ Return \/ Tick

MalformedSpec == Init /\ [][MalformedNext]_vars

\* ------------------------------------------------------------------------
\* Library functions called on their own
\* ------------------------------------------------------------------------
\* The scoring system is constructed without artifacts and stays idle.
LibInit ==
    /\ model_files = [credit |-> [file |-> "missing"], default |-> [file |-> "missing"]]
    /\ credit_score_model = NoModel
    /\ default_probability_model = NoModel
    /\ clock = 0
    /\ pc = "idle"
    /\ request = NoRequest
    /\ frame = NoFrame
    /\ result = NoResult
    /\ call = NoCall
    /\ returned = NoCall
    /\ directory = EmptyTable
    /\ response = NoResponse
    /\ tasks = <<>>

SystemUnchanged ==
    UNCHANGED <<model_files, credit_score_model, default_probability_model, clock,
                pc, request, frame, result, directory,
                   response, tasks>>

\* The caller takes what the library call returned.
LibReturn ==
    /\ call # NoCall
    /\ call' = NoCall
    /\ returned' = NoCall
    /\ SystemUnchanged

\* The class lists np.unique(y) stored at fit time (sorted, no duplicates).
ClassLists == {<<"A", "B", "C">>, <<"B", "D">>, <<"A", "B", "C", "D", "E">>}

MaxVoters == 4

\* The predictions of n sub-models for the row.
VoteProfiles(classes_, n) == [1..n -> Range(classes_)]

\* CreditScoreClassifier.predict on a fitted ensemble of 1..MaxVoters
\* sub-models, or on a single-model classifier.
Predict ==
    /\ call = NoCall
    /\ \E classes_ \in ClassLists :
       \E model_type \in {"ensemble", "rf"} :
       \E n \in (IF model_type = "ensemble" THEN 0..MaxVoters ELSE {1}) :
       \E preds \in VoteProfiles(classes_, n) :
          /\ call' = [fn |-> "predict", model_type |-> model_type,
                      classes_ |-> classes_, preds |-> preds]
          /\ returned' = predict(model_type, classes_, preds)
    /\ SystemUnchanged

PredictNext == Predict \/ LibReturn

PredictSpec == LibInit /\ [][PredictNext]_vars

\* The cells a feature column can hold before the post-pass.
ColumnCells == {N(1), N(2), N(4), NaN, Inf(1)}

MaxRows == 4

\* The post-pass of FeatureCombiner.transform on a column of a batch of
\* 1..MaxRows borrowers.
PostPass ==
    /\ call = NoCall
    /\ \E n \in 1..MaxRows :
       \E column \in [1..n -> ColumnCells] :
          /\ call' = [fn |-> "post_pass", column |-> column]
          /\ returned' = PostPassColumn(column)
    /\ SystemUnchanged

PostPassNext == PostPass \/ LibReturn

PostPassSpec == LibInit /\ [][PostPassNext]_vars

\* ------------------------------------------------------------------------
\* Scoring followed by the background save of the API
\* ------------------------------------------------------------------------
SaveRequests ==
    {[financial |-> FinGood], [financial |-> FinMid], EmptyTable}

\* /score: one call of score_borrower whose result is then saved.
ScoreForSave == Score(SaveRequests)

\* Time passes between score_borrower returning and the background task.
Elapse ==
    /\ pc = "scored"
    /\ clock < MaxClock
    /\ clock' = clock + 1
    /\ UNCHANGED <<model_files, credit_score_model, default_probability_model,
                   pc, request, frame, result, call, returned, directory,
                   response, tasks>>

\* background_tasks.add_task(credit_system.save_assessment, assessment,
\* output_dir='assessments')
SaveAssessment ==
    /\ pc = "scored"
    /\ pc' = "saved"
    /\ call' = [fn |-> "save_assessment", assessment |-> result,
                output_dir |-> "assessments"]
    /\ directory' = save_assessment(directory, result, "assessments", clock).directory
    /\ returned' = save_assessment(directory, result, "assessments", clock).filepath
    /\ UNCHANGED <<model_files, credit_score_model, default_probability_model, clock,
                   request, frame, result, response, tasks>>

\* The background task is done; the system is ready for the next call.
SaveDone ==
    /\ pc = "saved"
    /\ pc' = "idle"
    /\ request' = NoRequest
    /\ frame' = NoFrame
    /\ result' = NoResult
    /\ call' = NoCall
    /\ returned' = NoCall
    /\ UNCHANGED <<model_files, credit_score_model, default_probability_model, clock,
                   directory,
                   response, tasks>>

SaveNext == ScoreForSave \/ Elapse \/ SaveAssessment \/ SaveDone \/ Tick

SaveSpec == LibInit /\ [][SaveNext]_vars

\* ------------------------------------------------------------------------
\* Scoring and saving while the artifact files are replaced
\* ------------------------------------------------------------------------
\* model_dir without artifacts, and with a classifier fitted on one column and
\* an estimator.
FrameArtifacts ==
    {[credit |-> [file |-> "missing"], default |-> [file |-> "missing"]],
     [credit |-> [file |-> "ok", model |-> Classifier(<<1>>, 1)],
      default |-> [file |-> "ok", model |-> Estimator]]}

\* CreditScoringSystem.__init__ on one of these directories.
FrameInit ==
    /\ model_files \in FrameArtifacts
    /\ credit_score_model = load_models(model_files).credit_score_model
    /\ default_probability_model = load_models(model_files).default_probability_model
    /\ clock = 0
    /\ pc = "idle"
    /\ request = NoRequest
    /\ frame = NoFrame
    /\ result = NoResult
    /\ call = NoCall
    /\ returned = NoCall
    /\ directory = EmptyTable
    /\ response = NoResponse
    /\ tasks = <<>>

\* One table per source; each makes its preprocessor or extractor add
\* columns.
FrameRequests ==
    {[credit_history |-> [payments_on_time |-> N(1), total_payments |-> N(2)]],
     [business |-> [industry |-> Str("retail"), founded_year |-> N(BaseYear - 18)]],
     [financial |-> [net_income |-> N(1), total_assets |-> N(2)]]}

ScoreForFrame == Score(FrameRequests)

\* The artifact files under model_dir are replaced while the process runs.
Deploy ==
    /\ pc = "idle"
    /\ model_files' \in FrameArtifacts \ {model_files}
    /\ UNCHANGED <<credit_score_model, default_probability_model, clock, pc, request,
                   frame, result, call, returned, directory,
                   response, tasks>>

FrameNext == ScoreForFrame \/ Return \/ SaveAssessment \/ SaveDone \/ Deploy

FrameSpec == FrameInit /\ [][FrameNext]_vars

\* ------------------------------------------------------------------------
\* api.py: the scoring endpoints and their background saves
\* ------------------------------------------------------------------------
\* raise HTTPException(status_code=..., detail=...)
HTTPException(status_code, detail) == [status_code |-> status_code, detail |-> detail]

\* The fields of ScoringResponse, the response_model of /score.
ScoringResponseFields ==
    {"credit_score", "default_probability", "risk_assessment", "explanatory_factors",
     "timestamp", "borrower_id"}

\* return assessment: the 200 response carries the declared fields, null for
\* an optional one the assessment does not have.
Returned(assessment) ==
    [status_code |-> 200,
     body |-> [f \in ScoringResponseFields |->
                 IF f \in DOMAIN assessment THEN assessment[f] ELSE None]]

\* if request.borrower_id: assessment['borrower_id'] = request.borrower_id
WithBorrowerId(assessment, borrower_id) ==
    IF borrower_id \in {None, Str("")} THEN assessment
    ELSE WithField(assessment, "borrower_id", borrower_id)

\* Mutant: the save is started by the handler, before the response.
SaveTask_Started(assessment) ==
    [fn |-> "save_assessment", assessment |-> assessment, output_dir |-> "assessments",
     phase |-> "ready", filename |-> None]

\* background_tasks.add_task(credit_system.save_assessment, assessment,
\* output_dir='assessments')
SaveTask(assessment) ==
    [fn |-> "save_assessment", assessment |-> assessment, output_dir |-> "assessments",
     phase |-> "added", filename |-> None]

\* except Exception as e: raise HTTPException(status_code=500,
\* detail=f"Scoring failed: {str(e)}")
ExceptHandler(e) == HTTPException(500, <<"Scoring failed: ", e>>)

\* The endpoint from the borrower_id test on, for the assessment
\* score_borrower returned.  The HTTPException of the error check is raised
\* inside the try block, whose handler catches every Exception; the tasks
\* of a request that ends in an exception are not run.
Endpoint(assessment, borrower_id) ==
    IF "error" \in DOMAIN WithBorrowerId(assessment, borrower_id)
    THEN [assessment |-> WithBorrowerId(assessment, borrower_id),
          response |-> ExceptHandler(HTTPException(400, assessment.error)),
          background |-> <<>>]
    ELSE [assessment |-> WithBorrowerId(assessment, borrower_id),
          response |-> Returned(WithBorrowerId(assessment, borrower_id)),
          background |-> <<SaveTask(WithBorrowerId(assessment, borrower_id))>>]

\* The endpoint for what score_borrower returned and computed.
Handled(r, req, borrower_id, current_year) ==
    [frame |-> [r.frame EXCEPT !.arguments = CallerRecords(req, current_year)],
     endpoint |-> Endpoint(r.result, borrower_id)]

\* The requests: a financial record or no record at all, with and without a
\* borrower id.
ApiRequests ==
    {[tables |-> t, borrower_id |-> b] :
        t \in {[financial |-> FinGood], EmptyTable}, b \in {None, Str("b-1")}}

\* Background tasks added in one run of the server; tasks keeps each of them,
\* finished or not, in the order in which they were added.
MaxTasks == 2

\* POST /score or /score/file: the handler runs from its first line to its
\* return or raise.
Handle ==
    /\ pc = "idle"
    /\ Len(tasks) < MaxTasks
    /\ \E rq \in ApiRequests :
       \E clf_out \in ClassifierAnswers(
                         credit_score_model,
                         extract_features(preprocess_data(rq.tables, YearOf(clock)).data)) :
       \E est_out \in (IF credit_score_model.loaded /\ default_probability_model.loaded
                          /\ clf_out # Raises
                       THEN EstimatorOutcomes ELSE {EstRaises}) :
          LET h == Handled(score_borrower(credit_score_model, default_probability_model,
                                          rq.tables, clf_out, est_out, clock,
                                          YearOf(clock)),
                           rq.tables, rq.borrower_id, YearOf(clock))
          IN  /\ request' = rq.tables
              /\ frame' = h.frame
              /\ result' = h.endpoint.assessment
              /\ response' = h.endpoint.response
              /\ tasks' = tasks \o h.endpoint.background
    /\ pc' = "handled"
    /\ UNCHANGED <<model_files, credit_score_model, default_probability_model, clock,
                   call, returned, directory>>

\* The response is sent; the task the handler added may run from now on.
SendResponse ==
    /\ pc = "handled"
    /\ pc' = "idle"
    /\ request' = NoRequest
    /\ frame' = NoFrame
    /\ result' = NoResult
    /\ response' = NoResponse
    /\ tasks' = [i \in DOMAIN tasks |->
                   IF tasks[i].phase = "added" THEN [tasks[i] EXCEPT !.phase = "ready"]
                   ELSE tasks[i]]
    /\ UNCHANGED <<model_files, credit_score_model, default_probability_model, clock,
                   call, returned, directory>>

ServerUnchanged ==
    UNCHANGED <<model_files, credit_score_model, default_probability_model, clock, pc,
                request, frame, result, call, returned, response>>

\* save_assessment in a worker thread, up to open(filepath, 'w').
OpenFile ==
    \E i \in DOMAIN tasks :
        /\ tasks[i].phase = "ready"
        /\ tasks' = [tasks EXCEPT ![i].phase = "open",
                                  ![i].filename = FileName(Strftime(clock))]
        /\ directory' = OpenForWriting(directory, FileName(Strftime(clock)))
        /\ ServerUnchanged

\* save_assessment from json.dump to its return.
CloseFile ==
    \E i \in DOMAIN tasks :
        /\ tasks[i].phase = "open"
        /\ tasks' = [tasks EXCEPT ![i].phase = "done"]
        /\ directory' = DumpAndClose(directory, tasks[i].filename, tasks[i].assessment)
        /\ ServerUnchanged

\* makedirs, open or the write raises (no permission, disk full): the
\* exception ends the task.
FailSave ==
    \E i \in DOMAIN tasks :
        /\ tasks[i].phase \in {"ready", "open"}
        /\ tasks' = [tasks EXCEPT ![i].phase = "failed"]
        /\ directory' = directory
        /\ ServerUnchanged

ApiNext == Handle \/ SendResponse \/ OpenFile \/ CloseFile \/ FailSave \/ Tick

ApiSpec == LibInit /\ [][ApiNext]_vars

\* ------------------------------------------------------------------------
\* Properties
\* ------------------------------------------------------------------------
Scored == pc = "scored"

Assessed == Scored /\ "error" \notin DOMAIN result

OnHeuristic == Assessed /\ frame.path = "heuristic"

OnModel == Assessed /\ frame.path = "model"

Categories == {"A", "B", "C", "D", "E"}

\* 0 <= p <= 1 for a finite number p.
InUnitInterval(p) == IsNum(p) /\ 0 <= p.n /\ p.n <= p.d

\* 0 <= x <= 100 for a finite number x.
InScoreRange(x) == IsNum(x) /\ 0 <= x.n /\ x.n <= 100 * x.d

\* The mathematical clamp of x to [lo, hi]; undefined stays undefined.
Clamp(x, lo, hi) ==
    IF x.k = "nan" THEN NaN
    ELSE IF FLt(x, lo) THEN lo
    ELSE IF FLt(hi, x) THEN hi
    ELSE x

\* C1: every result without an error field carries a default_probability in
\* [0,1], on the heuristic path and on the model path whatever the estimator
\* returned.
C1_ProbabilityInUnitInterval ==
    Assessed => InUnitInterval(result.default_probability)

C3_PathChosenOnce ==
    Assessed =>
        /\ frame.path \in {"heuristic", "model"}
        /\ (frame.path = "heuristic") = (~credit_score_model.loaded)
        /\ (frame.path = "heuristic" =>
               /\ "note" \in DOMAIN result
               /\ "explanatory_factors" \notin DOMAIN result
               /\ frame.model_calls = {})
        /\ (frame.path = "model" =>
               /\ "note" \notin DOMAIN result
               /\ "classifier" \in frame.model_calls)

\* C3 witness: an estimator is loaded but no classifier, and the heuristic
\* answered.
C3_Witness ==
    /\ OnHeuristic
    /\ default_probability_model.loaded
    /\ ~credit_score_model.loaded
    /\ "note" \in DOMAIN result

\* The risk table of the specification, top to bottom.
RiskTable ==
    << [cats |-> {"A"}, below |-> Num(5, 100), risk_level |-> "Very Low",
        recommendation |-> "Highly recommended for approval"],
       [cats |-> {"A", "B"}, below |-> Num(10, 100), risk_level |-> "Low",
        recommendation |-> "Recommended for approval"],
       [cats |-> {"B", "C"}, below |-> Num(15, 100), risk_level |-> "Moderate",
        recommendation |-> "Consider approval with standard terms"],
       [cats |-> {"C", "D"}, below |-> Num(25, 100), risk_level |-> "High",
        recommendation |-> "Consider approval with stricter terms"] >>

RowMatches(row, cat, p) == cat \in row.cats /\ FLt(p, row.below)

\* The first matching row, or the "else" row.
RiskTableLookup(cat, p) ==
    LET hits == {i \in 1..Len(RiskTable) : RowMatches(RiskTable[i], cat, p)}
    IN  IF hits = {}
        THEN [risk_level |-> "Very High", recommendation |-> "Not recommended for approval"]
        ELSE LET first == CHOOSE i \in hits : \A j \in hits : i <= j
             IN  [risk_level |-> RiskTable[first].risk_level,
                  recommendation |-> RiskTable[first].recommendation]

\* C4: on both paths the risk assessment of a result is the first matching
\* row of the risk table for the result's category and default probability.
C4_RiskTable ==
    Assessed =>
        result.risk_assessment
            = RiskTableLookup(result.credit_score.category, result.default_probability)

\* C4 witness: category A with probability exactly 0.05 misses the first row
\* and is rated by the second.
C4_Witness ==
    /\ OnModel
    /\ result.credit_score.category = "A"
    /\ result.default_probability = Num(5, 100)
    /\ result.risk_assessment.risk_level = "Low"

\* C5: on the heuristic path the category follows from the overall score by
\* the thresholds 90, 80, 70, 60, each boundary value belonging to the
\* better category.
C5_CategoryThresholds ==
    OnHeuristic =>
        LET s == frame.overall_score
            c == result.credit_score.category
            atLeast(t) == s.k # "nan" /\ ~FLt(s, N(t))
        IN  /\ c \in Categories
            /\ (c = "A") = atLeast(90)
            /\ (c = "B") = (atLeast(80) /\ ~atLeast(90))
            /\ (c = "C") = (atLeast(70) /\ ~atLeast(80))
            /\ (c = "D") = (atLeast(60) /\ ~atLeast(70))
            /\ (c = "E") = ~atLeast(60)

\* C5 witness: an overall score of exactly 80 is rated B.
C5_Witness ==
    /\ OnHeuristic
    /\ frame.overall_score = N(80)
    /\ result.credit_score.category = "B"

\* The fixed category table of the specification.
CategoryScore == [A |-> 90, B |-> 80, C |-> 70, D |-> 60, E |-> 50]

CategoryDescription ==
    [A |-> "Excellent credit, very low risk", B |-> "Good credit, low risk",
     C |-> "Fair credit, moderate risk", D |-> "Below average credit, high risk",
     E |-> "Poor credit, very high risk"]

\* C6: whenever the category of a result is one of A..E, numerical_score and
\* description are the fixed table entry of that category, on both paths;
\* the heuristic path never reports the raw average.
C6_CategoryTable ==
    (Assessed /\ result.credit_score.category \in Categories) =>
        /\ result.credit_score.numerical_score
              = N(CategoryScore[result.credit_score.category])
        /\ result.credit_score.description
              = CategoryDescription[result.credit_score.category]

\* C6 witness: a heuristic overall score of 100 is reported as 90.
C6_Witness ==
    /\ OnHeuristic
    /\ frame.overall_score = N(100)
    /\ result.credit_score.category = "A"
    /\ result.credit_score.numerical_score = N(90)

\* The factors the specification lists, in its order, for the preprocessed
\* tables pre: one entry per listed column that is present.
ExpectedFactors(pre) ==
    LET has(src, col) == src \in DOMAIN pre /\ col \in DOMAIN pre[src]
        opt(src, col, f) == IF has(src, col) THEN <<f>> ELSE <<>>
        val(src, col) == pre[src][col]
    IN  opt("financial", "return_on_assets",
            Clamp(FMul(val("financial", "return_on_assets"), N(100)), N(0), N(100)))
        \o opt("financial", "current_ratio",
               Clamp(FMul(val("financial", "current_ratio"), N(25)), N(0), N(100)))
        \o opt("financial", "debt_to_equity",
               Clamp(FSub(N(100), FMul(val("financial", "debt_to_equity"), N(20))),
                     N(0), N(100)))
        \o opt("business", "company_age",
               Clamp(FMul(val("business", "company_age"), N(5)), N(0), N(100)))
        \o opt("business", "industry_risk",
               Clamp(FSub(N(100), FMul(val("business", "industry_risk"), N(10))),
                     N(0), N(100)))
        \o opt("credit_history", "payment_reliability",
               val("credit_history", "payment_reliability"))
        \o opt("credit_history", "previous_defaults",
               Clamp(FSub(N(100), FMul(val("credit_history", "previous_defaults"), N(25))),
                     N(0), Inf(1)))

\* C7: on the heuristic path the gathered factors are the documented ones,
\* the overall score is their arithmetic mean, and it is 50 when there is
\* none; a non-empty feature record without any factor gives category E and
\* default probability 0.5, not an error.
C7_MeanOfFactors ==
    OnHeuristic =>
        LET f == frame.score_factors
        IN  /\ f = ExpectedFactors(frame.preprocessed_data)
            /\ (f # <<>> => frame.overall_score = FMul(SumCells(f), Num(1, Len(f))))
            /\ (f = <<>> =>
                  /\ frame.overall_score = N(50)
                  /\ DOMAIN frame.features # {}
                  /\ result.credit_score.category = "E"
                  /\ result.default_probability = Num(1, 2))

\* C7 witness: three financial factors 50, 75 and 80 with mean 205/3.
C7_Witness ==
    /\ OnHeuristic
    /\ frame.score_factors = <<N(50), N(75), N(80)>>
    /\ frame.overall_score = Num(205, 3)

\* C8: on the heuristic path the default probability is
\* clamp(1 - overall_score/100, 0, 1) for every overall score that is a
\* number; when every gathered factor is 100 the result is category A with
\* probability 0.
C8_HeuristicProbability ==
    OnHeuristic =>
        LET s == frame.overall_score
            f == frame.score_factors
        IN  /\ (s.k # "nan" =>
                  result.default_probability
                     = Clamp(FSub(N(1), FMul(s, Num(1, 100))), N(0), N(1)))
            /\ ((f # <<>> /\ \A i \in 1..Len(f) : f[i] = N(100)) =>
                  /\ result.credit_score.category = "A"
                  /\ result.default_probability = N(0))

\* C8 witness: the factors are [100, 100, 100].
C8_Witness ==
    /\ OnHeuristic
    /\ frame.score_factors = <<N(100), N(100), N(100)>>
    /\ result.credit_score.category = "A"
    /\ result.default_probability = N(0)

\* C9: on the heuristic path every gathered factor, and so the overall
\* score, lies in 0..100.
C9_FactorsInRange ==
    OnHeuristic =>
        /\ \A i \in 1..Len(frame.score_factors) : InScoreRange(frame.score_factors[i])
        /\ InScoreRange(frame.overall_score)

\* C10: on the heuristic path payment_reliability is a score factor whenever
\* the derived credit-history table of the borrower has it, also when it is
\* derived from payments_on_time and total_payments.
C10_ReliabilityGathered ==
    (OnHeuristic /\ "credit_history" \in DOMAIN request) =>
        LET derived == CreditHistoryFeatureExtractor(request["credit_history"])
        IN  "payment_reliability" \in DOMAIN derived =>
               \E i \in 1..Len(frame.score_factors) :
                  frame.score_factors[i] = derived["payment_reliability"]


\* The feature record of the request being served, computed from the
\* arguments of the call.
RequestPreprocessed == preprocess_data(request, YearOf(clock))

RequestFeatures == extract_features(RequestPreprocessed.data)

\* C11: when preprocessing succeeded, the result is the insufficient-data
\* error exactly when the combined feature record is empty (no source, or no
\* source contributing an allow-listed column), with or without a classifier;
\* that error record carries no category, probability or risk tier.
C11_InsufficientData ==
    (Scored /\ ~RequestPreprocessed.raised) =>
        /\ (DOMAIN RequestFeatures = {}) <=>
              ("error" \in DOMAIN result /\ result.error = InsufficientData)
        /\ (DOMAIN RequestFeatures = {} => DOMAIN result = {"error", "timestamp"})

\* C11 witness: a classifier is loaded, a business source is supplied, and it
\* contributes no allow-listed column.
C11_Witness ==
    /\ Scored
    /\ credit_score_model.loaded
    /\ DOMAIN request = {"business"}
    /\ ~RequestPreprocessed.raised
    /\ DOMAIN RequestFeatures = {}
    /\ result.error = InsufficientData


\* An artifact failed to load: its file is missing or corrupt.
LoadFailed(artifact) == artifact.file # "ok"

\* C12: when the classifier artifact or the estimator artifact is missing or
\* corrupt, construction completes and no later scoring call asks a model:
\* every call that reaches the path choice takes the heuristic path.
C12_LoadFailureHeuristic ==
    (Scored /\ (LoadFailed(model_files.credit) \/ LoadFailed(model_files.default))) =>
        /\ frame.model_calls = {}
        /\ frame.path # "model"


\* The number of sub-models voting for a class.
VotesFor(class, preds) == Cardinality({i \in 1..Len(preds) : preds[i] = class})

\* Position of a class in the stored class list.
ClassIndex(classes_, class) == CHOOSE j \in 1..Len(classes_) : classes_[j] = class

\* C13: an ensemble of N >= 1 sub-models returns a class no other class
\* outvotes, and every class before it in the stored class list has strictly
\* fewer votes; the votes A, A, B give A.
C13_MajorityVote ==
    (call.fn = "predict" /\ call.model_type = "ensemble" /\ call.preds # <<>>) =>
        /\ returned \in Range(call.classes_)
        /\ \A c \in Range(call.classes_) :
              /\ VotesFor(c, call.preds) <= VotesFor(returned, call.preds)
              /\ (ClassIndex(call.classes_, c) < ClassIndex(call.classes_, returned) =>
                     VotesFor(c, call.preds) < VotesFor(returned, call.preds))
        /\ (call.preds = <<"A", "A", "B">> => returned = "A")

\* C13 witness: three sub-models vote A, A, B and predict returned A.
C13_Witness ==
    /\ call.fn = "predict"
    /\ call.model_type = "ensemble"
    /\ call.preds = <<"A", "A", "B">>
    /\ returned = "A"


\* Position of a column in features.columns.
ColumnIndex(names, column) == CHOOSE i \in 1..Len(names) : names[i] = column

\* The importance the classifier gives to a column of the feature record.
ImportanceOf(column) ==
    credit_score_model.feature_importances_[
        ColumnIndex(FeatureNames(frame.features), column)]

\* C14: on the model path, a classifier with importances gives a list of the
\* min(5, number of features) most important features of the record, each
\* once, in descending importance, each with its own importance and value and
\* tagged positive exactly when its value is greater than 0; a classifier
\* without importances gives no explanatory_factors.
C14_ExplanatoryFactors ==
    OnModel =>
        IF credit_score_model.feature_importances_ = <<>>
        THEN "explanatory_factors" \notin DOMAIN result
        ELSE /\ "explanatory_factors" \in DOMAIN result
             /\ LET ef == result.explanatory_factors
                    names == FeatureNames(frame.features)
                    listed == {ef[p].factor : p \in 1..Len(ef)}
                IN  /\ Len(ef) <= 5
                    /\ Len(ef) = (IF Len(names) < 5 THEN Len(names) ELSE 5)
                    /\ listed \subseteq DOMAIN frame.features
                    /\ Cardinality(listed) = Len(ef)
                    /\ \A p \in 1..Len(ef) :
                          /\ ef[p].importance = ImportanceOf(ef[p].factor)
                          /\ ef[p].value = frame.features[ef[p].factor]
                          /\ ef[p].impact \in {"positive", "negative"}
                          /\ (ef[p].impact = "positive") <=>
                                (ef[p].value.k \in {"num", "inf"} /\ FSign(ef[p].value) = 1)
                    /\ \A p, q \in 1..Len(ef) :
                          p < q => ef[p].importance >= ef[q].importance
                    /\ \A c \in DOMAIN frame.features \ listed :
                          \A p \in 1..Len(ef) : ImportanceOf(c) <= ef[p].importance

\* C14 witness: the record has more than 5 features, 5 are listed, and both
\* tags occur.
C14_Witness ==
    /\ OnModel
    /\ "explanatory_factors" \in DOMAIN result
    /\ Cardinality(DOMAIN frame.features) > 5
    /\ Len(result.explanatory_factors) = 5
    /\ \E p, q \in 1..5 :
          /\ result.explanatory_factors[p].impact = "positive"
          /\ result.explanatory_factors[q].impact = "negative"


\* The documented ratios: name, named inputs, denominator.
RatioInputs ==
    {<<"current_ratio", {"current_assets", "current_liabilities"}, "current_liabilities">>,
     <<"cash_ratio", {"cash", "current_liabilities"}, "current_liabilities">>,
     <<"return_on_assets", {"net_income", "total_assets"}, "total_assets">>,
     <<"return_on_equity", {"net_income", "total_equity"}, "total_equity">>,
     <<"gross_margin", {"gross_profit", "revenue"}, "revenue">>,
     <<"net_profit_margin", {"net_income", "revenue"}, "revenue">>,
     <<"debt_to_assets", {"total_debt", "total_assets"}, "total_assets">>,
     <<"debt_to_equity", {"total_debt", "total_equity"}, "total_equity">>,
     <<"asset_turnover", {"revenue", "total_assets"}, "total_assets">>,
     <<"inventory_turnover", {"cost_of_goods_sold", "inventory"}, "inventory">>,
     <<"revenue_growth", {"revenue", "previous_revenue"}, "previous_revenue">>,
     <<"profit_growth", {"net_income", "previous_net_income"}, "previous_net_income">>,
     <<"cash_flow_to_income", {"operating_cash_flow", "net_income"}, "net_income">>,
     <<"cash_flow_to_debt", {"operating_cash_flow", "total_debt"}, "total_debt">>,
     <<"interest_coverage", {"ebit", "interest_expense"}, "interest_expense">>,
     <<"working_capital_ratio", {"current_assets", "current_liabilities", "revenue"},
       "revenue">>,
     <<"debt_service_coverage", {"operating_cash_flow", "debt_service"}, "debt_service">>}

\* The ratios the caller did not pass in as raw columns.
ComputedRatios(raw) == {r \in RatioInputs : r[1] \notin DOMAIN raw}

\* The input is the number zero.
IsZero(cell) == IsNum(cell) /\ cell.n = 0

\* The derived financial table of the request: the output of
\* calculate_financial_ratios passed through FinancialFeatureExtractor.
DerivedFinancial == FinancialFeatureExtractor(frame.preprocessed_data["financial"])

\* A financial source was passed and its derived table was built.
FinancialDerived ==
    /\ Scored
    /\ "financial" \in DOMAIN request
    /\ "financial" \in DOMAIN frame.preprocessed_data

\* C15: in the derived financial table every raw column is kept; a computed
\* ratio is a column exactly when all its named inputs are columns; it has a
\* defined value only when all inputs are non-null and the denominator is not
\* zero; with a zero denominator it is the undefined marker; it is never
\* infinite.  The table is built for every financial record passed.
C15_RatiosUndefinedNotInfinite ==
    /\ (Scored /\ "financial" \in DOMAIN request /\ DOMAIN request = {"financial"}) =>
          "financial" \in DOMAIN frame.preprocessed_data
    /\ FinancialDerived =>
          LET raw == request["financial"]
          IN  /\ DOMAIN raw \subseteq DOMAIN DerivedFinancial
              /\ DOMAIN raw \subseteq DOMAIN frame.preprocessed_data["financial"]
              /\ \A r \in ComputedRatios(raw) :
                    /\ (r[1] \in DOMAIN DerivedFinancial) <=> (r[2] \subseteq DOMAIN raw)
                    /\ r[1] \in DOMAIN DerivedFinancial =>
                          /\ DerivedFinancial[r[1]].k \in {"num", "nan"}
                          /\ (IsNum(DerivedFinancial[r[1]]) =>
                                /\ \A c \in r[2] : ~IsNull(raw[c])
                                /\ ~IsZero(raw[r[3]]))
                          /\ (IsZero(raw[r[3]]) => DerivedFinancial[r[1]] = NaN)
                    /\ r[1] \in DOMAIN frame.preprocessed_data["financial"] =>
                          frame.preprocessed_data["financial"][r[1]].k \in {"num", "nan"}

\* C15 witness: one ratio of the table has a zero denominator and is
\* undefined, another has a defined value, a third lacks an input.
C15_Witness ==
    /\ FinancialDerived
    /\ \E r1, r2, r3 \in ComputedRatios(request["financial"]) :
          /\ r1[2] \subseteq DOMAIN request["financial"]
          /\ IsZero(request["financial"][r1[3]])
          /\ \A c \in r1[2] : IsNum(request["financial"][c])
          /\ DerivedFinancial[r1[1]] = NaN
          /\ r2[1] \in DOMAIN DerivedFinancial
          /\ IsNum(DerivedFinancial[r2[1]])
          /\ r3[1] \notin DOMAIN DerivedFinancial


\* The documented bracket of a whole-number age: intervals closed on the left.
DocumentedAgeBracket(age) ==
    IF age < 2 THEN [age_bracket |-> "startup", age_risk |-> 5]
    ELSE IF age < 5 THEN [age_bracket |-> "early_stage", age_risk |-> 4]
    ELSE IF age < 10 THEN [age_bracket |-> "established", age_risk |-> 3]
    ELSE IF age < 20 THEN [age_bracket |-> "mature", age_risk |-> 2]
    ELSE [age_bracket |-> "legacy", age_risk |-> 1]

\* The call got a business record with a founding year not after this year.
FoundedYearGiven ==
    /\ Scored
    /\ "business" \in DOMAIN request
    /\ "founded_year" \in DOMAIN request["business"]
    /\ IsNum(request["business"]["founded_year"])
    /\ request["business"]["founded_year"].d = 1
    /\ request["business"]["founded_year"].n <= YearOf(clock)

\* C16: a company of age a >= 0 gets the bracket and the age risk of the
\* left-closed interval holding a: [0,2) startup/5, [2,5) early_stage/4,
\* [5,10) established/3, [10,20) mature/2, [20,inf) legacy/1.
C16_AgeBrackets ==
    FoundedYearGiven =>
        LET age == YearOf(clock) - request["business"]["founded_year"].n
        IN  /\ "business" \in DOMAIN frame.preprocessed_data
            /\ {"company_age", "age_bracket", "age_risk"}
                  \subseteq DOMAIN frame.preprocessed_data["business"]
            /\ frame.preprocessed_data["business"]["company_age"] = N(age)
            /\ frame.preprocessed_data["business"]["age_bracket"]
                  = Str(DocumentedAgeBracket(age).age_bracket)
            /\ frame.preprocessed_data["business"]["age_risk"]
                  = N(DocumentedAgeBracket(age).age_risk)


\* The documented allow-lists.
FinancialAllowList ==
    {"current_ratio", "cash_ratio", "return_on_assets", "return_on_equity",
     "gross_margin", "net_profit_margin", "debt_to_assets", "debt_to_equity",
     "asset_turnover", "inventory_turnover", "revenue_growth", "profit_growth",
     "cash_flow_to_income", "cash_flow_to_debt", "interest_coverage",
     "working_capital_ratio", "debt_service_coverage"}

BusinessAllowList ==
    {"company_age", "industry_risk", "age_risk", "revenue_per_employee",
     "profit_per_employee", "business_stability", "employee_count"}

CreditAllowList ==
    {"payment_reliability", "credit_utilization", "debt_ratio",
     "default_risk_score", "previous_defaults", "late_payments"}

\* The documented interaction features: name and the two operands.
Interactions ==
    {<<"debt_age_interaction", {"debt_to_assets", "company_age"}>>,
     <<"industry_adjusted_roa", {"return_on_assets", "industry_risk"}>>,
     <<"stability_adjusted_risk", {"default_risk_score", "business_stability"}>>}

InteractionNames == {x[1] : x \in Interactions}

\* The allow-listed columns the derived table of a supplied source holds.
AllowedColumns(source) ==
    CASE source = "financial" ->
            FinancialAllowList
               \cap DOMAIN FinancialFeatureExtractor(frame.preprocessed_data[source])
      [] source = "business" ->
            BusinessAllowList
               \cap DOMAIN BusinessFeatureExtractor(frame.preprocessed_data[source])
      [] source = "credit_history" ->
            CreditAllowList
               \cap DOMAIN CreditHistoryFeatureExtractor(frame.preprocessed_data[source])

\* score_borrower got past feature extraction.
FeaturesBuilt == Scored /\ ~RequestPreprocessed.raised

\* C17: the feature record holds exactly the allow-listed columns of the
\* supplied sources (17, 7 and 6 names, none twice) and each interaction
\* feature exactly when both its operands are in the record; a business
\* source alone gives no interaction feature.
C17_FeatureColumns ==
    /\ Cardinality(FinancialAllowList) = 17 /\ Len(financial_cols) = 17
    /\ Cardinality(BusinessAllowList) = 7 /\ Len(business_cols) = 7
    /\ Cardinality(CreditAllowList) = 6 /\ Len(credit_cols) = 6
    /\ Cardinality(FinancialAllowList \cup BusinessAllowList \cup CreditAllowList
                   \cup InteractionNames) = 33
    /\ FeaturesBuilt =>
          /\ DOMAIN frame.preprocessed_data = DOMAIN request
          /\ DOMAIN frame.features \ InteractionNames
                = UNION {AllowedColumns(s) : s \in DOMAIN request}
          /\ \A x \in Interactions :
                (x[1] \in DOMAIN frame.features) <=> (x[2] \subseteq DOMAIN frame.features)
          /\ (DOMAIN request = {"business"} =>
                DOMAIN frame.features \cap InteractionNames = {})

\* C17 witness: a business source alone gives a record of several business
\* columns and no interaction feature.
C17_Witness ==
    /\ FeaturesBuilt
    /\ DOMAIN request = {"business"}
    /\ Cardinality(DOMAIN frame.features) >= 3
    /\ DOMAIN frame.features \subseteq BusinessAllowList


\* The defined values of the batch column passed to the post-pass.
DefinedIn(column) == {i \in 1..Len(column) : IsNum(column[i])}

\* m is a median of the defined values: at least half of them are <= m and
\* at least half are >= m.
IsMedianOf(m, column) ==
    /\ IsNum(m)
    /\ 2 * Cardinality({i \in DefinedIn(column) : ~FGt(column[i], m)})
          >= Cardinality(DefinedIn(column))
    /\ 2 * Cardinality({i \in DefinedIn(column) : ~FLt(column[i], m)})
          >= Cardinality(DefinedIn(column))

\* C18: after the post-pass no cell of a column is infinite; defined cells
\* are unchanged; every other cell holds a median of the defined cells of
\* the column, and is undefined only when the column has no defined cell.
\* With one row, a defined cell is unchanged and any other cell is undefined.
C18_PostPass ==
    call.fn = "post_pass" =>
        /\ Len(returned) = Len(call.column)
        /\ \A i \in 1..Len(returned) :
              /\ returned[i].k # "inf"
              /\ (IsNum(call.column[i]) => returned[i] = call.column[i])
              /\ (~IsNum(call.column[i]) /\ DefinedIn(call.column) # {} =>
                     IsMedianOf(returned[i], call.column))
              /\ (DefinedIn(call.column) = {} => returned[i] = NaN)
        /\ (Len(call.column) = 1 =>
               returned[1] = (IF IsNum(call.column[1]) THEN call.column[1] ELSE NaN))

\* C18 witness: in a batch of four rows an infinite and an undefined cell are
\* replaced by the median 5/2 of the two defined cells.
C18_Witness ==
    /\ call.fn = "post_pass"
    /\ call.column = <<N(1), Inf(1), N(4), NaN>>
    /\ returned = <<N(1), Num(5, 2), N(4), Num(5, 2)>>


\* The first interaction feature, in code order, whose operands are in the
\* record and one of them holds a string; 0 when there is none.
FailingInteraction(record) ==
    IF "debt_to_assets" \in DOMAIN record /\ "company_age" \in DOMAIN record
       /\ "str" \in {record["debt_to_assets"].k, record["company_age"].k}
    THEN 1
    ELSE IF "return_on_assets" \in DOMAIN record /\ "industry_risk" \in DOMAIN record
            /\ "str" \in {record["return_on_assets"].k, record["industry_risk"].k}
    THEN 2
    ELSE IF "default_risk_score" \in DOMAIN record /\ "business_stability" \in DOMAIN record
            /\ "str" \in {record["default_risk_score"].k, record["business_stability"].k}
    THEN 3
    ELSE 0

InteractionOrder ==
    <<"debt_age_interaction", "industry_adjusted_roa", "stability_adjusted_risk">>

\* A step of the combiner failed on the record: an interaction feature, or
\* the median of a column holding a string.
CombinerFailed(record) == \E c \in DOMAIN record : record[c].k = "str"

\* C19: when preprocessing succeeded, a failure inside the combiner does not
\* end the call: the record holds every allow-listed column of the sources,
\* the interaction features computed before the failing one and none from it
\* on, and score_borrower goes on with that record: it reports insufficient
\* data exactly when the record is empty, and otherwise reaches the heuristic
\* or asks the classifier.
C19_CombinerNeverPropagates ==
    FeaturesBuilt =>
        /\ frame.path # "none"
        /\ DOMAIN frame.preprocessed_data = DOMAIN request
        /\ DOMAIN frame.features \ InteractionNames
              = UNION {AllowedColumns(s) : s \in DOMAIN request}
        /\ \A k \in 1..3 :
              (InteractionOrder[k] \in DOMAIN frame.features) <=>
                 /\ \E x \in Interactions :
                       x[1] = InteractionOrder[k] /\ x[2] \subseteq DOMAIN frame.features
                 /\ FailingInteraction(frame.features) \notin 1..k
        /\ (frame.path = "empty") <=> (DOMAIN frame.features = {})
        /\ (frame.path = "except" =>
               IF credit_score_model.loaded
               THEN "classifier" \in frame.model_calls
               ELSE heuristic_scoring(frame.preprocessed_data, clock).raised)

\* C19 witness: the third interaction feature fails on a string, the record
\* keeps the five columns assembled before it, and the heuristic scores 90.
C19_Witness ==
    /\ OnHeuristic
    /\ FailingInteraction(frame.features) = 3
    /\ CombinerFailed(frame.features)
    /\ DOMAIN frame.features
          = {"company_age", "age_risk", "business_stability",
             "payment_reliability", "default_risk_score"}
    /\ frame.overall_score = N(90)


\* C20: save_assessment stores the record in the file named after the
\* generation time of the assessment (its timestamp field, cut to seconds)
\* and returns the path of that file, however long after the scoring call it
\* runs.
C20_FileNamedByGenerationTime ==
    pc = "saved" =>
        /\ returned = PathJoin("assessments", FileName(Strftime(result.timestamp)))
        /\ FileName(Strftime(result.timestamp)) \in DOMAIN directory
        /\ directory[FileName(Strftime(result.timestamp))] = <<result>>

Decision(r) ==
    IF "error" \in DOMAIN r THEN [error |-> r.error]
    ELSE [category |-> r.credit_score.category,
          numerical_score |-> r.credit_score.numerical_score,
          default_probability |-> r.default_probability,
          risk_level |-> r.risk_assessment.risk_level,
          recommendation |-> r.risk_assessment.recommendation]

\* C22: with no classifier loaded (so that no model answer enters), the call
\* just served returns the same decision as the same call made at any
\* earlier time; only the timestamp may differ.
C22_Deterministic ==
    Scored /\ ~credit_score_model.loaded =>
        \A t \in 0..clock :
            Decision(score_borrower(credit_score_model, default_probability_model,
                                    request, Raises, EstRaises, t, YearOf(t)).result)
                = Decision(result)

\* C23: when score_borrower returned the insufficient-data error record, the
\* endpoint answers 400 with the error text as detail.
C23_InsufficientIs4xx ==
    (pc = "handled" /\ "error" \in DOMAIN result /\ result.error = InsufficientData) =>
        response = HTTPException(400, InsufficientData)

\* C24: while a request with a computed assessment is being answered, its
\* response is the 200 response carrying that assessment and its save has
\* not been attempted yet; and no step of a save, failing or not, changes
\* the response, the assessment held by the handler or the assessment of any
\* task.
C24_SaveFailureKeepsAssessment ==
    [][/\ (pc = "handled" /\ "error" \notin DOMAIN result =>
              /\ response = Returned(result)
              /\ tasks # <<>>
              /\ tasks[Len(tasks)].assessment = result
              /\ tasks[Len(tasks)].phase = "added")
       /\ (pc' = pc /\ tasks' # tasks =>
              /\ response' = response
              /\ result' = result
              /\ (Len(tasks') = Len(tasks) =>
                     \A i \in DOMAIN tasks : tasks'[i].assessment = tasks[i].assessment))
      ]_vars

\* C24 witness: the save of one request failed after the file had been
\* opened, while the next request holds its 200 response.
C24_Witness ==
    /\ pc = "handled"
    /\ response.status_code = 200
    /\ Len(tasks) = 2
    /\ tasks[1].phase = "failed"
    /\ tasks[1].filename # None

\* C27: of two finished saves, those made in different seconds have left two
\* files, each holding its assessment; those made in the same second have the
\* same file name, and that file holds one of the two assessments, whole and
\* alone.
C27_SameSecondOverwrite ==
    \A i, j \in DOMAIN tasks :
        (i < j /\ tasks[i].phase = "done" /\ tasks[j].phase = "done") =>
            /\ (tasks[i].filename = tasks[j].filename) =
                   (tasks[i].filename.timestamp = tasks[j].filename.timestamp)
            /\ {tasks[i].filename, tasks[j].filename} \subseteq DOMAIN directory
            /\ (tasks[i].filename # tasks[j].filename =>
                   /\ directory[tasks[i].filename] = <<tasks[i].assessment>>
                   /\ directory[tasks[j].filename] = <<tasks[j].assessment>>)
            /\ (tasks[i].filename = tasks[j].filename =>
                   directory[tasks[i].filename]
                       \in {<<tasks[i].assessment>>, <<tasks[j].assessment>>})

\* The factors that are defined.
AvailableFactors(f) ==
    LET IsAvailable(x) == ~IsNull(x)
    IN  SelectSeq(f, IsAvailable)

\* C25: on the heuristic path the overall score is the mean of the factors
\* whose source value is defined, 50 when there is none, and the category
\* and the default probability are those of that score.
C25_UndefinedSourceSkipped ==
    OnHeuristic =>
        LET f == AvailableFactors(frame.score_factors)
            expected == IF f = <<>> THEN N(50) ELSE FMul(SumCells(f), Num(1, Len(f)))
        IN  /\ frame.overall_score = expected
            /\ result.credit_score.category = HeuristicCategory(expected)
            /\ result.default_probability = HeuristicProbability(expected)

\* The business table of the request has the column, and its cell is null or
\* a year after the current one.
FoundedYearUndefinedOrFuture ==
    /\ "business" \in DOMAIN request
    /\ "founded_year" \in DOMAIN request.business
    /\ \/ IsNull(request.business.founded_year)
       \/ /\ IsNum(request.business.founded_year)
          /\ FGt(request.business.founded_year, N(YearOf(clock)))

\* The business table of the request has an industry that is null or not in
\* the risk table.
IndustryUnknownOrUndefined ==
    /\ "business" \in DOMAIN request
    /\ "industry" \in DOMAIN request.business
    /\ \/ IsNull(request.business.industry)
       \/ /\ request.business.industry.k = "str"
          /\ IndustryRiskOf(Lower(request.business.industry.s)) = 0

\* C26: a founded_year that is undefined or in the future gives undefined
\* company_age and age_risk cells and, when the record has another usable
\* feature (here an industry), no error result; an unknown or undefined
\* industry gives industry_risk 4.  Checked with no classifier loaded, so
\* that no exception of a model enters.
C26_UndefinedBusinessCells ==
    Scored /\ ~credit_score_model.loaded =>
        /\ (FoundedYearUndefinedOrFuture /\ "industry" \in DOMAIN request.business
                /\ request.business.industry.k = "str" =>
               /\ "error" \notin DOMAIN result
               /\ IsNull(frame.preprocessed_data.business.age_risk)
               /\ ~IsNum(frame.preprocessed_data.business.company_age)
                  \/ FLt(frame.preprocessed_data.business.company_age, N(0)))
        /\ (IndustryUnknownOrUndefined /\ "founded_year" \notin DOMAIN request.business =>
               /\ "error" \notin DOMAIN result
               /\ frame.preprocessed_data.business.industry_risk = N(4))

\* The risk level of each category when the default probability is 0.
RiskByCategory ==
    [c \in Categories |->
        CASE c = "A" -> "Very Low"
          [] c = "B" -> "Low"
          [] c = "C" -> "Moderate"
          [] c = "D" -> "High"
          [] c = "E" -> "Very High"]

\* C28: a model-path result computed without an estimator reports
\* default_probability 0, and its risk level is the one of its category.
C28_NoEstimatorRiskByCategory ==
    OnModel /\ ~default_probability_model.loaded =>
        /\ result.default_probability = N(0)
        /\ frame.model_calls = {"classifier"}
        /\ (result.credit_score.category \in Categories =>
               result.risk_assessment.risk_level
                   = RiskByCategory[result.credit_score.category])

\* C28 witness: the classifier answered C with no estimator loaded, and the
\* risk level is Moderate.
C28_Witness ==
    /\ OnModel
    /\ ~default_probability_model.loaded
    /\ result.credit_score.category = "C"
    /\ result.default_probability = N(0)
    /\ result.risk_assessment.risk_level = "Moderate"

\* The risk levels, best first.
RiskRank(level) ==
    CASE level = "Very Low" -> 1
      [] level = "Low" -> 2
      [] level = "Moderate" -> 3
      [] level = "High" -> 4
      [] level = "Very High" -> 5

\* The risk level the heuristic path reports for an overall score.
HeuristicRiskLevel(s) ==
    assess_risk(HeuristicCategory(s), HeuristicProbability(s)).risk_level

\* The probabilities the rows of _assess_risk compare with.
RiskThresholds == {Num(5, 100), Num(10, 100), Num(15, 100), Num(25, 100)}

\* The probability of the score is on no threshold of _assess_risk, so the
\* rounding of 1 - score / 100 in binary floating point decides no row.
OffThreshold(s) ==
    \A t \in RiskThresholds :
        FLt(HeuristicProbability(s), t) \/ FGt(HeuristicProbability(s), t)

\* Overall scores a single payment_reliability factor produces.
LowerScores == {N(x) : x \in {0, 59, 60, 70, 79, 80, 89, 96, 100}}

\* C29: the risk level of a heuristic result is never worse than the risk
\* level the heuristic gives to a lower overall score (compared at scores
\* whose probability is on no threshold of the risk table).
C29_RiskMonotone ==
    (OnHeuristic /\ IsNum(frame.overall_score) /\ OffThreshold(frame.overall_score)) =>
        \A s1 \in LowerScores :
            ~FGt(s1, frame.overall_score) =>
                RiskRank(result.risk_assessment.risk_level)
                    <= RiskRank(HeuristicRiskLevel(s1))


\* A label outside credit_categories.
UnknownLabel == "F"

\* The assessment of an unknown label: no error, numerical_score 0,
\* description 'Unknown', risk level 'Very High'.
UnknownLabelAssessment(r) ==
    /\ "error" \notin DOMAIN r
    /\ r.credit_score.category \notin Categories
    /\ r.credit_score.numerical_score = N(0)
    /\ r.credit_score.description = "Unknown"
    /\ r.risk_assessment.risk_level = "Very High"

\* What the estimator can answer without raising (none when it is not loaded).
EstimatorAnswers ==
    IF default_probability_model.loaded
    THEN EstimatorOutcomes \ {EstRaises} ELSE {EstRaises}

\* C30: on the model path a label outside A..E gives a non-error assessment
\* with numerical_score 0, description 'Unknown' and risk level 'Very High',
\* whatever the default probability: both in the result that was returned and
\* for every answer the estimator can give to the same request.
C30_UnknownLabel ==
    /\ (OnModel /\ result.credit_score.category \notin Categories) =>
           UnknownLabelAssessment(result)
    /\ (Scored /\ UnknownLabel \in ClassifierAnswers(
                      credit_score_model,
                      extract_features(preprocess_data(request, YearOf(clock)).data))) =>
           \A est_out \in EstimatorAnswers :
               UnknownLabelAssessment(
                   score_borrower(credit_score_model, default_probability_model,
                                  request, UnknownLabel, est_out, clock,
                                  YearOf(clock)).result)

\* C30 witness: the classifier answered F, the estimator a probability below
\* every threshold, and the result reports 0, 'Unknown' and 'Very High'.
C30_Witness ==
    /\ OnModel
    /\ result.credit_score.category = UnknownLabel
    /\ default_probability_model.loaded
    /\ result.default_probability = Num(3, 100)
    /\ UnknownLabelAssessment(result)

====
